---- MODULE Spec2Model ----
(***************************************************************************)
(* A model of the Pragati validation engine:                               *)
(*   - BaseValidationAgent.validate_output and its helpers                 *)
(*     (app/crew_ai_validation/base_agent.py),                             *)
(*   - AgentCollaborationManager.get_execution_order / resolve_dependencies*)
(*     (app/crew_ai_validation/base_agent.py),                             *)
(*   - validate_idea and PragatiCrewAIValidator.validate_idea              *)
(*     (app/crew_ai_integration.py),                                       *)
(*   - the /api/validate-idea endpoint (app/app_v3.py).                    *)
(* Each part has its own specification over the shared variables; the      *)
(* variables of the other parts stay at their initial value.               *)
(***************************************************************************)
EXTENDS Integers, Sequences, FiniteSets, TLC

VARIABLES
    vo_output,      \* validate_output: the raw evaluator output
    vo_pc,          \* validate_output: "call" | "returned" | "raised"
    vo_result,      \* validate_output: the returned evaluation
    cm_agents,      \* AgentCollaborationManager.agents (the registry)
    cm_pc,          \* collaboration manager run: position of the run
    cm_order,       \* the batches returned by get_execution_order
    cm_completed,   \* completed_evaluations of the run (ordered agent ids)
    cm_agent,       \* the agent whose dependencies were resolved last
    cm_context,     \* the result of the last resolve_dependencies call
    vi_in,          \* validate_idea: what fails in this call, and the weights
    vi_pc,          \* validate_idea: position in the call
    vi_ret,         \* validate_idea: the returned dict (or the raised error)
    ep_req,         \* /api/validate-idea: the request body
    ep_pc,          \* /api/validate-idea: position in the handler
    ep_resp,        \* /api/validate-idea: the response (status, body kind)
    ep_calls,       \* /api/validate-idea: number of validate_idea calls made
    ep_queue,       \* agent_message_queue (messages broadcast so far)
    ep_saved,       \* reports saved by db_manager.save_validation_report
    le_global,      \* _pragati_validator: the validator instance set (0: None)
    le_held,        \* per run: the validator instance the run obtained (0: none yet)
    le_pc,          \* per run: position of the run
    le_last,        \* per validator instance and agent: the run whose evaluation _last_evaluation holds (0: None)
    le_rec,         \* per run: the agents that recorded an evaluation of the run
    le_read,         \* per run: the run whose evaluation get_last_evaluation returned last (0: no read yet)
    fn_in,          \* the argument of the function applied (a score, a report, ...)
    fn_pc,          \* the functions applied to fn_in so far
    fn_out,          \* the values the functions returned
    rg_db,          \* /api/report/<id>/generate: the database manager (unreachable, without or with the AI report methods)
    rg_report,      \* the stored validation report of report_id: missing, without conversations, or complete
    rg_cache,       \* the cached AI report of report_id: the generation that wrote it (0: none)
    rg_pc,          \* per request: position in generate_ai_report
    rg_resp,        \* per request: the response
    rg_runs,        \* the number of runs of write_comprehensive_report started
    rg_done,         \* the number of runs of write_comprehensive_report completed
    bq_queue,       \* /api/agent-stream: agent_message_queue, the messages waiting
    bq_conns,       \* active_connections: the clients connected to /api/agent-stream
    bq_recv,        \* per client: the messages its event stream has yielded, in order
    bq_sent,        \* the number of messages broadcast so far
    bq_audience,     \* per message: the clients connected when it was broadcast
    dl_queue,       \* /api/report/<id>/download: progress_queue, the items waiting
    dl_result,      \* pdf_result: which of buffer, filename and error have been stored
    dl_thread,      \* position of the thread running generate_pdf
    dl_reported,    \* the number of progress updates generate_validation_report has reported
    dl_stream,      \* the events the response stream has yielded, in order
    dl_open,        \* whether the loop of generate() is still running
    dl_keepalives,   \* the number of keepalive events yielded
    rw_convs,       \* write_comprehensive_report: agent_conversations, the cluster of each
    rw_pc,          \* position in write_comprehensive_report
    rw_step,        \* current_step
    rw_progress,    \* the progress values passed to the callback, in order, in units of 1/total_steps
    rw_clusters,    \* cluster_reports: the clusters written, in order, and how
    rw_sections,    \* the sections written after the clusters, in order, and how
    rw_replies,     \* the kinds of replies the language model has given
    rw_report       \* the keys of the report returned

vo_vars == <<vo_output, vo_pc, vo_result>>
cm_vars == <<cm_agents, cm_pc, cm_order, cm_completed, cm_agent, cm_context>>
vi_vars == <<vi_in, vi_pc, vi_ret>>
ep_vars == <<ep_req, ep_pc, ep_resp, ep_calls, ep_queue, ep_saved>>
le_vars == <<le_global, le_held, le_pc, le_last, le_rec, le_read>>
fn_vars == <<fn_in, fn_pc, fn_out>>
rg_vars == <<rg_db, rg_report, rg_cache, rg_pc, rg_resp, rg_runs, rg_done>>
bq_vars == <<bq_queue, bq_conns, bq_recv, bq_sent, bq_audience>>
dl_vars == <<dl_queue, dl_result, dl_thread, dl_reported, dl_stream, dl_open, dl_keepalives>>
rw_vars == <<rw_convs, rw_pc, rw_step, rw_progress, rw_clusters, rw_sections, rw_replies, rw_report>>
vars == <<vo_vars, cm_vars, vi_vars, ep_vars, le_vars, fn_vars, rg_vars, bq_vars, dl_vars, rw_vars>>

None == [k |-> "none"]

(***************************************************************************)
(* Python values used by validate_output.                                  *)
(* A float is finite (v counts units of 1/Scale), NaN, +inf or -inf.       *)
(***************************************************************************)
\* The longest run of characters after the word "score" that a text carries.
MaxTok == 3

\* Finite floats are integers in units of 1/Scale, enough for MaxTok digits.
Scale == 10 ^ MaxTok

Fin(v) == [k |-> "fin", v |-> v]
NaN == [k |-> "nan", v |-> 0]
PosInf == [k |-> "inf", v |-> 0]
NegInf == [k |-> "ninf", v |-> 0]

\* x * Scale / 10 : a float given in tenths.
Tenths(x) == Fin((x * Scale) \div 10)

FRank(a) == IF a.k = "ninf" THEN 0 ELSE IF a.k = "fin" THEN 1 ELSE 2

\* Python's a < b on floats: every comparison with NaN is False.
FLt(a, b) ==
    IF a.k = "nan" \/ b.k = "nan" THEN FALSE
    ELSE IF a.k = "fin" /\ b.k = "fin" THEN a.v < b.v
    ELSE FRank(a) < FRank(b)

\* Python's min(a, b): the first argument unless the second is smaller.
PyMin(a, b) == IF FLt(b, a) THEN b ELSE a

\* Python's max(a, b): the first argument unless the second is greater.
PyMax(a, b) == IF FLt(a, b) THEN b ELSE a

\* The outcome of an expression: a value, or a raised exception.
Ok(v) == [exc |-> "none", val |-> v, msg |-> ""]
Raise(e) == [exc |-> e, val |-> None, msg |-> e]

\* An exception e whose str() is m.
RaiseMsg(e, m) == [exc |-> e, val |-> None, msg |-> m]

(***************************************************************************)
(* A field of a mapping: absent, or present with a Python value.           *)
(*   num    an int or float           str    a string float() accepts      *)
(*   nan / inf / ninf  float specials  nanstr the string "nan"             *)
(*   badstr a string float() rejects  null   None     list   a list        *)
(***************************************************************************)
Absent == [tag |-> "absent", v |-> 0]
Field(tag, v) == [tag |-> tag, v |-> v]

\* float(x)
PyFloat(x) ==
    CASE x.tag = "num" -> Ok(Fin(x.v))
      [] x.tag = "str" -> Ok(Fin(x.v))
      [] x.tag = "nan" -> Ok(NaN)
      [] x.tag = "nanstr" -> Ok(NaN)
      [] x.tag = "inf" -> Ok(PosInf)
      [] x.tag = "ninf" -> Ok(NegInf)
      [] x.tag = "badstr" -> Raise("ValueError")
      [] OTHER -> Raise("TypeError")

\* list(x): a list or a string is iterable, a number or None is not.
PyList(x) ==
    IF x.tag \in {"list", "str", "badstr", "nanstr"} THEN Ok("list")
    ELSE Raise("TypeError")

\* result.get(key, default) on a mapping.
Get(result, key, default) ==
    IF result[key].tag = "absent" THEN default ELSE result[key]

(***************************************************************************)
(* Text outputs.  A text is described by what the regular expression of    *)
(* _parse_text_output sees: whether the lower-cased text holds the word    *)
(* "score" (followed by any run of colons and whitespace), and the         *)
(* characters that come right after it.                                    *)
(***************************************************************************)
Digits == {"2", "7"}
Chars == Digits \cup {".", "x"}

DigitVal(c) == IF c = "2" THEN 2 ELSE 7

\* All sequences over S of length at most n.
SeqUpTo(S, n) == UNION {[1..m -> S] : m \in 0..n}

Texts == [keyword : BOOLEAN, tail : SeqUpTo(Chars, MaxTok)]

NoText == [keyword |-> FALSE, tail |-> <<>>]

\* ([0-9\.]+) : the longest prefix of the tail made of digits and dots.
RECURSIVE Capture(_)
Capture(tail) ==
    IF tail = <<>> \/ Head(tail) \notin Digits \cup {"."} THEN <<>>
    ELSE <<Head(tail)>> \o Capture(Tail(tail))

\* re.search(r'score[:\s]*([0-9\.]+)', text.lower()): the group, or <<>>.
score_match(text) == IF text.keyword THEN Capture(text.tail) ELSE <<>>

Dots(s) == Cardinality({i \in 1..Len(s) : s[i] = "."})

\* The digits of s as a decimal integer.
RECURSIVE IntVal(_)
IntVal(s) ==
    IF s = <<>> THEN 0
    ELSE 10 * IntVal(SubSeq(s, 1, Len(s) - 1)) + DigitVal(s[Len(s)])

\* float(s) for a string of digits and dots: at most one dot and at least
\* one digit, else ValueError.
FloatOfDigits(s) ==
    IF Dots(s) > 1 \/ Dots(s) = Len(s) THEN Raise("ValueError")
    ELSE IF Dots(s) = 0 THEN Ok(Fin(IntVal(s) * Scale))
    ELSE LET p == CHOOSE i \in 1..Len(s) : s[i] = "."
             int == SubSeq(s, 1, p - 1)
             frac == SubSeq(s, p + 1, Len(s))
         IN Ok(Fin(IntVal(int) * Scale + IntVal(frac) * (Scale \div (10 ^ Len(frac)))))

(***************************************************************************)
(* Mappings: the keys of an evaluation.  The list-valued keys are all      *)
(* handled alike by validate_output; "assumptions" stands for them.        *)
(***************************************************************************)
StdKeys ==
    {"score", "confidence_level", "explanation", "assumptions", "key_insights",
     "recommendations", "risk_factors", "peer_challenges", "evidence_gaps",
     "indian_market_considerations"}

FallbackKeys ==
    {"score", "confidence_level", "explanation", "assumptions", "key_insights",
     "recommendations", "risk_factors", "indian_market_considerations"}

Mapping(score, conf, assumptions, explanation) ==
    [score |-> score, confidence_level |-> conf, assumptions |-> assumptions,
     explanation |-> explanation]

\* _parse_text_output: the mapping built from a text, or the exception that
\* float(score_match.group(1)) raises.
parse_text_output(text) ==
    LET m == score_match(text)
        score == IF m # <<>> THEN FloatOfDigits(m) ELSE Ok(Tenths(30))
    IN IF score.exc # "none" THEN score
       ELSE Ok(Mapping(Field("num", score.val.v), Field("num", Tenths(6).v),
                       Field("list", 0), Field("str", 0)))

\* _create_fallback_result
create_fallback_result ==
    [score |-> Tenths(30), confidence_level |-> Tenths(5),
     explanation |-> "Fallback evaluation", keys |-> FallbackKeys]

\* Mutant of Clamp: the lower bound is not applied.
ClampUpperOnly(lo, hi, x) == PyMin(hi, x)

\* max(lo, min(hi, x)) as written in validate_output.
Clamp(lo, hi, x) == PyMax(lo, PyMin(hi, x))

\* The dict "standardized" of validate_output, built from a mapping,
\* with score and confidence_level clamped.
Standardize(result) ==
    LET score == PyFloat(Get(result, "score", Field("num", Tenths(30).v)))
        conf == PyFloat(Get(result, "confidence_level", Field("num", Tenths(7).v)))
        assumptions == PyList(Get(result, "assumptions", Field("list", 0)))
    IN IF score.exc # "none" THEN score
       ELSE IF conf.exc # "none" THEN conf
       ELSE IF assumptions.exc # "none" THEN assumptions
       ELSE Ok([score |-> Clamp(Tenths(10), Tenths(50), score.val),
                confidence_level |-> Clamp(Tenths(0), Tenths(10), conf.val),
                explanation |-> IF result.explanation.tag = "absent"
                                THEN "Evaluation completed" ELSE "given",
                keys |-> StdKeys])

\* The kinds of raw output:
\*   mapping      a dict
\*   str_json     a string in which {.*} matches and json.loads succeeds
\*   str_badjson  a string in which {.*} matches and json.loads raises
\*   str_text     a string in which {.*} does not match
\*   other        any other value (None, a number, a list): it has no .get
\* The try block of validate_output: the standardized dict or the exception.
validate_output_try(output) ==
    LET result ==
            CASE output.kind = "str_json" -> Ok(output.fields)
              [] output.kind = "str_badjson" -> Raise("JSONDecodeError")
              [] output.kind = "str_text" -> parse_text_output(output.text)
              [] OTHER -> Ok(output.fields)
    IN IF result.exc # "none" THEN result
       ELSE IF output.kind = "other" THEN Raise("AttributeError")
       ELSE Standardize(result.val)

\* validate_output: except Exception -> the fallback result.
validate_output(output) ==
    LET r == validate_output_try(output)
    IN IF r.exc = "none" THEN r ELSE Ok(create_fallback_result)

(***************************************************************************)
(* The raw outputs validate_output is applied to.                          *)
(***************************************************************************)
ScoreFields ==
    {Absent, Field("nan", 0), Field("nanstr", 0), Field("inf", 0),
     Field("ninf", 0), Field("badstr", 0), Field("null", 0), Field("list", 0),
     Field("str", Tenths(45).v)}
    \cup {Field("num", Tenths(x).v) : x \in {-10, 0, 10, 30, 42, 50, 70}}

ConfFields ==
    {Absent, Field("nan", 0), Field("badstr", 0), Field("null", 0)}
    \cup {Field("num", Tenths(x).v) : x \in {-5, 0, 5, 10, 15}}

AssumptionFields == {Absent, Field("list", 0), Field("num", 0)}

ExplanationFields == {Absent, Field("str", 0)}

NoFields == Mapping(Absent, Absent, Absent, Absent)

Mappings ==
    {Mapping(s, c, a, e) :
        s \in ScoreFields, c \in ConfFields, a \in AssumptionFields,
        e \in ExplanationFields}

Output(kind, fields, text) == [kind |-> kind, fields |-> fields, text |-> text]

Outputs ==
    {Output(k, f, NoText) : k \in {"mapping", "str_json"}, f \in Mappings}
    \cup {Output(k, NoFields, t) : k \in {"str_text", "str_badjson"}, t \in Texts}
    \cup {Output("other", NoFields, NoText)}

\* agent.validate_output(vo_output) is called and returns (or raises).
ValidateOutput ==
    /\ vo_pc = "call"
    /\ LET r == validate_output(vo_output)
       IN /\ vo_pc' = IF r.exc = "none" THEN "returned" ELSE "raised"
          /\ vo_result' = r.val
    /\ UNCHANGED vo_output
    /\ UNCHANGED <<cm_vars, vi_vars, ep_vars, le_vars, fn_vars, rg_vars, bq_vars, dl_vars, rw_vars>>

(***************************************************************************)
(* AgentCollaborationManager.  A name is a sequence of characters; the     *)
(* registry self.agents is a sequence of agents in insertion order, an     *)
(* agent's id being its index.  An agent's result is named by its id.      *)
(***************************************************************************)
\* The number of registered agents.
NAgents == 3

\* The most dependencies an agent declares.
MaxDeps == 2

\* The longest name of the matching check.
MaxNameLen == 2

\* c.lower()
LowerChar(c) == IF c = "A" THEN "a" ELSE c

\* Mutant of Normalize: the names are not lower-cased.
NormalizeNoLower(s) == [i \in 1..Len(s) |-> IF s[i] = " " THEN "_" ELSE s[i]]

\* s.lower().replace(' ', '_')
Normalize(s) ==
    [i \in 1..Len(s) |-> IF LowerChar(s[i]) = " " THEN "_" ELSE LowerChar(s[i])]

\* Python's "needle in hay" on strings.
Contains(hay, needle) ==
    \E i \in 0..(Len(hay) - Len(needle)) : SubSeq(hay, i + 1, i + Len(needle)) = needle

AgentIds(agents) == 1..Len(agents)

\* The ids 1..n, in registry order, of the agents that have dependencies
\* (WithDeps) or have none (~WithDeps).
RECURSIVE AppendIf(_, _, _)
AppendIf(agents, n, WithDeps) ==
    IF n = 0 THEN <<>>
    ELSE LET rest == AppendIf(agents, n - 1, WithDeps)
         IN IF (agents[n].dependencies # {}) = WithDeps THEN Append(rest, n) ELSE rest

\* Mutant of get_execution_order: every agent is appended to dependent.
get_execution_order_all_dependent(agents) ==
    <<AppendIf(agents, Len(agents), FALSE),
      AppendIf(agents, Len(agents), FALSE) \o AppendIf(agents, Len(agents), TRUE)>>

\* Mutant of get_execution_order: the test "if not agent.dependencies" inverted.
get_execution_order_inverted(agents) ==
    <<AppendIf(agents, Len(agents), TRUE), AppendIf(agents, Len(agents), FALSE)>>

\* get_execution_order: [independent, dependent].
get_execution_order(agents) ==
    <<AppendIf(agents, Len(agents), FALSE), AppendIf(agents, Len(agents), TRUE)>>

\* The test of resolve_dependencies for one dependency and one completed agent.
DependencyMatches(dependency, eval_agent) ==
    Contains(Normalize(eval_agent.sub_parameter), Normalize(dependency))

\* The first completed evaluation (in the order of completed_evaluations) whose
\* agent is registered and matches the dependency; 0 when there is none.
FirstMatch(agents, dependency, completed) ==
    LET hits == {i \in 1..Len(completed) :
                    /\ completed[i] \in AgentIds(agents)
                    /\ DependencyMatches(dependency, agents[completed[i]])}
    IN IF hits = {} THEN 0
       ELSE completed[CHOOSE i \in hits : \A j \in hits : i <= j]

\* resolve_dependencies: dependency name -> id of the agent whose result it holds.
resolve_dependencies(agents, agent_id, completed) ==
    LET deps == agents[agent_id].dependencies
        found == {d \in deps : FirstMatch(agents, d, completed) # 0}
    IN [d \in found |-> FirstMatch(agents, d, completed)]

Agent(sub_parameter, dependencies) ==
    [sub_parameter |-> sub_parameter, dependencies |-> dependencies]

Range(s) == {s[i] : i \in 1..Len(s)}

\* The registries of a run: agent i evaluates the i-th sub-parameter of the
\* pool (cyclically) and declares up to MaxDeps dependencies, by name, among
\* "a", "c" and "x"; "x" is the sub-parameter of no agent, and "a" is also
\* a part of the sub-parameter "ab".
SubParamPool == <<(<<"a", "b">>), (<<"a">>), (<<"c">>)>>

SubParamOf(i) == SubParamPool[((i - 1) % Len(SubParamPool)) + 1]

DepNames == {<<"a">>, <<"c">>, <<"x">>}

DepSets == {S \in SUBSET DepNames : Cardinality(S) <= MaxDeps}

Registries ==
    {[i \in 1..NAgents |-> Agent(SubParamOf(i), deps[i])] : deps \in [1..NAgents -> DepSets]}

NoContext == [d \in {} |-> 0]

\* The run asks the collaboration manager for the batches.
GetExecutionOrder ==
    /\ cm_pc = "start"
    /\ cm_order' = get_execution_order(cm_agents)
    /\ cm_pc' = "running"
    /\ UNCHANGED <<cm_agents, cm_completed, cm_agent, cm_context>>
    /\ UNCHANGED <<vo_vars, vi_vars, ep_vars, le_vars, fn_vars, rg_vars, bq_vars, dl_vars, rw_vars>>

\* The first batch that still has an agent without an evaluation (0: none).
CurrentBatch ==
    LET open == {k \in 1..Len(cm_order) : ~(Range(cm_order[k]) \subseteq Range(cm_completed))}
    IN IF open = {} THEN 0 ELSE CHOOSE k \in open : \A j \in open : k <= j

\* The run evaluates one agent of the current batch: it resolves the agent's
\* dependencies against the evaluations completed so far, then records the
\* agent's evaluation.  Agents of one batch are evaluated in any order.
EvaluateAgent(a) ==
    /\ cm_pc = "running"
    /\ CurrentBatch # 0
    /\ a \in Range(cm_order[CurrentBatch]) \ Range(cm_completed)
    /\ cm_agent' = a
    /\ cm_context' = resolve_dependencies(cm_agents, a, cm_completed)
    /\ cm_completed' = Append(cm_completed, a)
    /\ UNCHANGED <<cm_agents, cm_order, cm_pc>>
    /\ UNCHANGED <<vo_vars, vi_vars, ep_vars, le_vars, fn_vars, rg_vars, bq_vars, dl_vars, rw_vars>>

\* Every batch is evaluated: the run ends.
FinishRun ==
    /\ cm_pc = "running"
    /\ CurrentBatch = 0
    /\ cm_pc' = "done"
    /\ UNCHANGED <<cm_agents, cm_order, cm_completed, cm_agent, cm_context>>
    /\ UNCHANGED <<vo_vars, vi_vars, ep_vars, le_vars, fn_vars, rg_vars, bq_vars, dl_vars, rw_vars>>

(***************************************************************************)
(* resolve_dependencies on its own: names over a small alphabet with both  *)
(* cases, the space and the underscore; agent 1 declares the dependency    *)
(* (and, in half of the registries, a second one that nothing matches),    *)
(* agents 2 and 3 may have completed; id 9 is not registered.              *)
(***************************************************************************)
NameChars == {"a", "A", " ", "_"}

\* The names: at most MaxNameLen characters, a letter among them.
MatchNames == {s \in SeqUpTo(NameChars, MaxNameLen) : Range(s) \cap {"a", "A"} # {}}

MatchRegistries ==
    {<<Agent(<<"x">>, {d} \cup extra), Agent(s, {}), Agent(<<"a">>, {})>> :
        d \in MatchNames, extra \in {{}, {<<"x", "x">>}}, s \in MatchNames}

CompletedChoices == {<<>>, <<2>>, <<3>>, <<3, 2>>, <<9, 2>>}

\* resolve_dependencies(1, completed_evaluations) is called.
ResolveDependencies ==
    /\ cm_pc = "resolve"
    /\ cm_agent' = 1
    /\ cm_context' = resolve_dependencies(cm_agents, 1, cm_completed)
    /\ cm_pc' = "resolved"
    /\ UNCHANGED <<cm_agents, cm_order, cm_completed>>
    /\ UNCHANGED <<vo_vars, vi_vars, ep_vars, le_vars, fn_vars, rg_vars, bq_vars, dl_vars, rw_vars>>

(***************************************************************************)
(* validate_idea (crew_ai_integration.py).  A call is described by what    *)
(* happens in each of its steps; a returned dict by its keys and the       *)
(* values the claims are about.  Scores are in units of 1/Scale.           *)
(***************************************************************************)
NoError == [k |-> "none", s |-> ""]
ErrStr(m) == [k |-> "str", s |-> m]

LegacyKeys ==
    {"overall_score", "validation_outcome", "evaluated_data", "html_report", "error",
     "processing_time", "api_calls_made", "consensus_level", "collaboration_insights",
     "cluster_scores", "validation_id", "timestamp"}

ValidatorFallbackKeys ==
    {"overall_score", "validation_outcome", "evaluated_data", "html_report", "error",
     "processing_time", "api_calls_made"}

ModuleFallbackKeys ==
    {"overall_score", "validation_outcome", "evaluated_data", "html_report", "error"}

ResultDict(keys, overall_score, validation_outcome, error) ==
    [keys |-> keys, overall_score |-> overall_score,
     validation_outcome |-> validation_outcome, error |-> error]

\* ValidationOutcome of an overall score, as the orchestrator assigns it.
ValidationOutcomeOf(score) ==
    IF score >= Tenths(40).v THEN "EXCELLENT"
    ELSE IF score >= Tenths(30).v THEN "GOOD"
    ELSE IF score >= Tenths(20).v THEN "MODERATE"
    ELSE "WEAK"

\* What a call meets:
\*   validator  "cached": _pragati_validator is set; "constructs": the
\*              constructor succeeds; "raises": it raises (no OPENAI_API_KEY)
\*   weights    None, an empty dict, a dict of numbers, a dict with a value
\*              float() rejects, or a truthy value that is no dict
\*   loop       get_event_loop returns a loop, raises RuntimeError (a new
\*              loop is made), or returns a loop that is already running
\*   run        the orchestrator's validate_idea returns or raises
\*   convert    _convert_to_legacy_format returns or raises
\*   msg        str(e) of the exception raised, which may be empty
\*   score      the overall score of the orchestrator's result
ViInputs ==
    [validator : {"cached", "constructs", "raises"},
     weights : {"none", "empty", "numeric", "badvalue", "notdict"},
     loop : {"current", "none", "running"},
     run : {"ok", "raises"},
     convert : {"ok", "raises"},
     msg : {"", "boom"},
     score : {Tenths(x).v : x \in {10, 19, 20, 30, 39, 40, 50}}]

\* get_pragati_validator()
get_pragati_validator(in) ==
    IF in.validator = "raises" THEN RaiseMsg("ValueError", in.msg) ELSE Ok("validator")

\* {k: float(v) for k, v in weights.items()} under "if weights:"
convert_weights(in) ==
    CASE in.weights = "badvalue" -> RaiseMsg("ValueError", in.msg)
      [] in.weights = "notdict" -> RaiseMsg("AttributeError", in.msg)
      [] in.weights = "numeric" -> Ok("floats")
      [] OTHER -> Ok("none")

\* _convert_to_legacy_format
convert_to_legacy_format(in) ==
    IF in.convert = "raises" THEN RaiseMsg("Exception", in.msg)
    ELSE Ok(ResultDict(LegacyKeys, in.score, ValidationOutcomeOf(in.score), NoError))

\* PragatiCrewAIValidator._create_fallback_result
validator_fallback_result(error) ==
    ResultDict(ValidatorFallbackKeys, Tenths(30).v, "MODERATE", ErrStr(error))

\* loop.run_until_complete(self.validate_idea_async(...))
run_until_complete(in) ==
    IF in.loop = "running" THEN RaiseMsg("RuntimeError", in.msg)
    ELSE IF in.run = "raises" THEN RaiseMsg("Exception", in.msg)
    ELSE Ok("result")

\* PragatiCrewAIValidator.validate_idea
validator_validate_idea(in) ==
    LET run == run_until_complete(in)
        try == IF run.exc # "none" THEN run ELSE convert_to_legacy_format(in)
    IN IF try.exc = "none" THEN try ELSE Ok(validator_fallback_result(try.msg))

\* The dict of validate_idea's except clause.
module_fallback_result(error) ==
    ResultDict(ModuleFallbackKeys, Tenths(30).v, "ERROR", ErrStr(error))

\* Mutant of validate_idea: no except clause around the body.
validate_idea_unguarded(in) ==
    LET validator == get_pragati_validator(in)
        weights == convert_weights(in)
    IN IF validator.exc # "none" THEN validator
       ELSE IF weights.exc # "none" THEN weights
       ELSE validator_validate_idea(in)

\* validate_idea (module level)
validate_idea(in) ==
    LET validator == get_pragati_validator(in)
        weights == convert_weights(in)
        try == IF validator.exc # "none" THEN validator
               ELSE IF weights.exc # "none" THEN weights
               ELSE validator_validate_idea(in)
    IN IF try.exc = "none" THEN try ELSE Ok(module_fallback_result(try.msg))

NoResult == ResultDict({}, 0, "", NoError)

\* A caller calls the module-level validate_idea.
CallValidateIdea ==
    /\ vi_pc = "call"
    /\ LET r == validate_idea(vi_in)
       IN /\ vi_pc' = IF r.exc = "none" THEN "returned" ELSE "raised"
          /\ vi_ret' = IF r.exc = "none" THEN r.val ELSE NoResult
    /\ UNCHANGED vi_in
    /\ UNCHANGED <<vo_vars, cm_vars, ep_vars, le_vars, fn_vars, rg_vars, bq_vars, dl_vars, rw_vars>>

\* A caller holding a validator calls its validate_idea method.
CallValidatorValidateIdea ==
    /\ vi_pc = "call"
    /\ vi_in.validator # "raises"
    /\ LET r == validator_validate_idea(vi_in)
       IN /\ vi_pc' = IF r.exc = "none" THEN "method_returned" ELSE "raised"
          /\ vi_ret' = IF r.exc = "none" THEN r.val ELSE NoResult
    /\ UNCHANGED vi_in
    /\ UNCHANGED <<vo_vars, cm_vars, ep_vars, le_vars, fn_vars, rg_vars, bq_vars, dl_vars, rw_vars>>

(***************************************************************************)
(* POST /api/validate-idea (app_v3.py).  A required field of the body is   *)
(* missing, a string over {" ", "a"}, or a value that is no string.        *)
(***************************************************************************)
\* The longest string a request field holds.
MaxFieldLen == 2

RequiredFields == <<"user_id", "title", "idea_name", "idea_concept">>

Missing == [tag |-> "missing", s |-> <<>>]
NonStr == [tag |-> "nonstr", s |-> <<>>]
Str(s) == [tag |-> "str", s |-> s]

FieldValues == {Missing, NonStr} \cup {Str(s) : s \in SeqUpTo({" ", "a"}, MaxFieldLen)}

\* The body: get_json() returns None ("none") or a dict of the fields given.
Requests ==
    {[body |-> "none", fields |-> [f \in Range(RequiredFields) |-> Missing]]}
    \cup {[body |-> "dict", fields |-> fs] : fs \in [Range(RequiredFields) -> FieldValues]}

\* s.strip()
RECURSIVE LStrip(_)
LStrip(s) == IF s # <<>> /\ Head(s) = " " THEN LStrip(Tail(s)) ELSE s

RECURSIVE RStrip(_)
RStrip(s) ==
    IF s # <<>> /\ s[Len(s)] = " " THEN RStrip(SubSeq(s, 1, Len(s) - 1)) ELSE s

Strip(s) == RStrip(LStrip(s))

\* [field for field in required_fields if not data or field not in data]
missing_fields(req) ==
    {f \in Range(RequiredFields) : req.body = "none" \/ req.fields[f].tag = "missing"}

\* data[field].strip() for the four fields: a value that is no string raises.
stripped_fields(req) ==
    IF \E f \in Range(RequiredFields) : req.fields[f].tag = "nonstr"
    THEN Raise("AttributeError")
    ELSE Ok([f \in Range(RequiredFields) |-> Strip(req.fields[f].s)])

\* A response: the status, what the body is (the kind of error, or the
\* validation_outcome of the result returned), saved_to_database, and the
\* report_id of the body (0: the body has none).
Response(status, kind, saved) ==
    [status |-> status, kind |-> kind, saved |-> saved, report_id |-> 0]

NoResponse == Response(0, "", FALSE)

\* The outcome of the checks that precede the validation: a response that
\* ends the request, or None when the validation is to start.
request_checks(req) ==
    IF missing_fields(req) # {} THEN Response(400, "missing_fields", FALSE)
    ELSE LET stripped == stripped_fields(req)
         IN IF stripped.exc # "none" THEN Response(500, "internal_error", FALSE)
            ELSE IF \E f \in Range(RequiredFields) : stripped.val[f] = <<>>
                 THEN Response(400, "empty_fields", FALSE)
                 ELSE NoResponse

\* validate_idea_endpoint up to the start of the validation: the request is
\* answered with an error, or the start of the validation is broadcast.
EpCheckRequest ==
    /\ ep_pc = "received"
    /\ LET r == request_checks(ep_req)
       IN IF r # NoResponse
          THEN /\ ep_resp' = r
               /\ ep_pc' = "done"
               /\ UNCHANGED ep_queue
          ELSE /\ ep_queue' = Append(ep_queue, "start")
               /\ ep_pc' = "validate"
               /\ UNCHANGED ep_resp
    /\ UNCHANGED <<ep_req, ep_calls, ep_saved>>
    /\ UNCHANGED <<vo_vars, cm_vars, vi_vars, le_vars, fn_vars, rg_vars, bq_vars, dl_vars, rw_vars>>

\* result = validate_idea(idea_name, idea_concept, custom_weights)
EpValidate(in) ==
    /\ ep_pc = "validate"
    /\ ep_calls' = ep_calls + 1
    /\ LET r == validate_idea(in)
       IN IF r.exc # "none"
          THEN /\ ep_resp' = Response(500, "validation_failed", FALSE)
               /\ ep_pc' = "done"
          ELSE /\ ep_resp' = Response(0, r.val.validation_outcome, FALSE)
               /\ ep_pc' = "save"
    /\ UNCHANGED <<ep_req, ep_queue, ep_saved>>
    /\ UNCHANGED <<vo_vars, cm_vars, vi_vars, le_vars, fn_vars, rg_vars, bq_vars, dl_vars, rw_vars>>

\* The id of the next report the store holds: str(result.inserted_id).
NextReportId(stored) == Cardinality(stored) + 1

\* DatabaseManager.save_validation_report: the report id, or the exception
\* re-raised when building or inserting the document fails.
save_validation_report(db, stored) ==
    IF db = "saves" THEN Ok(NextReportId(stored)) ELSE Raise("Exception")

\* "report_id = None; if db_manager: try: report_id = save(...) except: log":
\* the report id after the block (0: None).
report_id_after_save(db, stored) ==
    IF db = "absent" THEN 0
    ELSE LET r == save_validation_report(db, stored)
         IN IF r.exc = "none" THEN r.val ELSE 0

\* The reports of the store after the block.
stored_after_save(db, stored) ==
    IF db = "saves" THEN stored \cup {NextReportId(stored)} ELSE stored

\* Mutant of result_with_report: saved_to_database is set whenever the result
\* is returned.
result_with_report_always_saved(kind, report_id) ==
    [status |-> 200, kind |-> kind, saved |-> TRUE, report_id |-> report_id]

\* "if report_id: result['report_id'] = report_id; saved_to_database = True
\* else: saved_to_database = False; return jsonify(result)"
result_with_report(kind, report_id) ==
    [status |-> 200, kind |-> kind, saved |-> report_id # 0, report_id |-> report_id]

\* The rest of the handler: the report is saved when there is a database
\* manager and save_validation_report does not raise; the completion is
\* broadcast and the result returned.
EpSaveAndRespond(db) ==
    /\ ep_pc = "save"
    /\ LET report_id == report_id_after_save(db, ep_saved)
       IN /\ ep_saved' = stored_after_save(db, ep_saved)
          /\ ep_queue' = IF report_id # 0 THEN ep_queue \o <<"saved", "completed">>
                         ELSE Append(ep_queue, "completed")
          /\ ep_resp' = result_with_report(ep_resp.kind, report_id)
    /\ ep_pc' = "done"
    /\ UNCHANGED <<ep_req, ep_calls>>
    /\ UNCHANGED <<vo_vars, cm_vars, vi_vars, le_vars, fn_vars, rg_vars, bq_vars, dl_vars, rw_vars>>

\* The calls of validate_idea a request can meet.
EpViInputs ==
    {in \in ViInputs : in.weights = "none" /\ in.loop = "current" /\ in.msg = "boom"
                       /\ in.score \in {Tenths(30).v, Tenths(40).v}}

NoViInput ==
    [validator |-> "cached", weights |-> "none", loop |-> "current", run |-> "ok",
     convert |-> "ok", msg |-> "", score |-> 0]

NoRequest == [body |-> "none", fields |-> [f \in Range(RequiredFields) |-> Missing]]

(***************************************************************************)
(* Concurrent validation runs (threads of the Flask server).  Every run    *)
(* obtains the validator through get_pragati_validator; the agents of a    *)
(* validator instance are shared by the runs that hold it, and each agent  *)
(* keeps one _last_evaluation.                                             *)
(***************************************************************************)
\* The number of concurrent runs.
NRuns == 2

\* The number of agents of a validator that record evaluations.
NRecAgents == 2

Runs == 1..NRuns

RecAgents == 1..NRecAgents

\* The validator instances: the one run r constructs is named r, the one
\* constructed when the server starts is named NRuns + 1.
StartupInstance == NRuns + 1

Instances == 1..StartupInstance

\* get_pragati_validator, "if _pragati_validator is None": the test.
LeCheckGlobal(r) ==
    /\ le_pc[r] = "start"
    /\ le_pc' = [le_pc EXCEPT ![r] = IF le_global = 0 THEN "construct" ELSE "return"]
    /\ UNCHANGED <<le_global, le_held, le_last, le_rec, le_read>>
    /\ UNCHANGED <<vo_vars, cm_vars, vi_vars, ep_vars, fn_vars, rg_vars, bq_vars, dl_vars, rw_vars>>

\* get_pragati_validator: _pragati_validator = PragatiCrewAIValidator()
LeConstruct(r) ==
    /\ le_pc[r] = "construct"
    /\ le_global' = r
    /\ le_pc' = [le_pc EXCEPT ![r] = "return"]
    /\ UNCHANGED <<le_held, le_last, le_rec, le_read>>
    /\ UNCHANGED <<vo_vars, cm_vars, vi_vars, ep_vars, fn_vars, rg_vars, bq_vars, dl_vars, rw_vars>>

\* get_pragati_validator: return _pragati_validator
LeReturn(r) ==
    /\ le_pc[r] = "return"
    /\ le_held' = [le_held EXCEPT ![r] = le_global]
    /\ le_pc' = [le_pc EXCEPT ![r] = "run"]
    /\ UNCHANGED <<le_global, le_last, le_rec, le_read>>
    /\ UNCHANGED <<vo_vars, cm_vars, vi_vars, ep_vars, fn_vars, rg_vars, bq_vars, dl_vars, rw_vars>>

\* record_evaluation: agent a of the validator the run holds records the
\* evaluation it made in run r.
record_evaluation(last, instance, a, r) == [last EXCEPT ![<<instance, a>>] = r]

\* get_last_evaluation of agent a of a validator instance.
get_last_evaluation(last, instance, a) == last[<<instance, a>>]

LeRecord(r, a) ==
    /\ le_pc[r] = "run"
    /\ a \notin le_rec[r]
    /\ le_last' = record_evaluation(le_last, le_held[r], a, r)
    /\ le_rec' = [le_rec EXCEPT ![r] = @ \cup {a}]
    /\ UNCHANGED <<le_global, le_held, le_pc, le_read>>
    /\ UNCHANGED <<vo_vars, cm_vars, vi_vars, ep_vars, fn_vars, rg_vars, bq_vars, dl_vars, rw_vars>>

\* Run r reads get_last_evaluation of an agent that has recorded in the run.
LeRead(r, a) ==
    /\ le_pc[r] = "run"
    /\ a \in le_rec[r]
    /\ le_read' = [le_read EXCEPT ![r] = get_last_evaluation(le_last, le_held[r], a)]
    /\ UNCHANGED <<le_global, le_held, le_pc, le_last, le_rec>>
    /\ UNCHANGED <<vo_vars, cm_vars, vi_vars, ep_vars, fn_vars, rg_vars, bq_vars, dl_vars, rw_vars>>

\* Every agent has recorded: the run ends.
LeFinish(r) ==
    /\ le_pc[r] = "run"
    /\ le_rec[r] = RecAgents
    /\ le_pc' = [le_pc EXCEPT ![r] = "done"]
    /\ UNCHANGED <<le_global, le_held, le_last, le_rec, le_read>>
    /\ UNCHANGED <<vo_vars, cm_vars, vi_vars, ep_vars, fn_vars, rg_vars, bq_vars, dl_vars, rw_vars>>

(***************************************************************************)
(* POST /api/validate-pitch-deck (app_v3.py).  The form carries user_id    *)
(* and title (form values are strings), the upload is absent, has no file  *)
(* name, a file name with another extension, or is a PDF/PPT/PPTX; the     *)
(* processing of the deck and the parsing of custom_weights may raise.     *)
(***************************************************************************)
FormValues == {Missing, Str(<<>>), Str(<<" ">>), Str(<<"a">>)}

PitchRequests ==
    [user_id : FormValues, title : FormValues,
     file : {"absent", "noname", "badext", "ok"},
     process : {"ok", "raises"},
     weights : {"absent", "json", "badjson"}]

\* The checks of the form and of the upload: a response that ends the
\* request, or None when the deck is to be processed.
pitch_request_checks(req) ==
    IF req.user_id.tag = "missing" \/ req.title.tag = "missing"
    THEN Response(400, "missing_fields", FALSE)
    ELSE IF Strip(req.user_id.s) = <<>> \/ Strip(req.title.s) = <<>>
    THEN Response(400, "empty_fields", FALSE)
    ELSE IF req.file = "absent" THEN Response(400, "no_file", FALSE)
    ELSE IF req.file = "noname" THEN Response(400, "no_file_selected", FALSE)
    ELSE IF req.file = "badext" THEN Response(400, "invalid_file_type", FALSE)
    ELSE NoResponse

\* validate_pitch_deck up to the start of the validation: the request is
\* answered with an error, or the deck is processed and the start of the
\* validation is broadcast; an exception of the processing or of
\* json.loads(custom_weights) is answered by the outer except clause.
PdCheckRequest ==
    /\ ep_pc = "pitch_received"
    /\ LET r == pitch_request_checks(ep_req)
       IN IF r # NoResponse
          THEN /\ ep_resp' = r
               /\ ep_pc' = "done"
               /\ UNCHANGED ep_queue
          ELSE IF ep_req.process = "raises"
          THEN /\ ep_resp' = Response(500, "pitch_deck_failed", FALSE)
               /\ ep_pc' = "done"
               /\ ep_queue' = Append(ep_queue, "processing")
          ELSE IF ep_req.weights = "badjson"
          THEN /\ ep_resp' = Response(500, "pitch_deck_failed", FALSE)
               /\ ep_pc' = "done"
               /\ ep_queue' = ep_queue \o <<"processing", "extracted">>
          ELSE /\ ep_queue' = ep_queue \o <<"processing", "extracted", "start">>
               /\ ep_pc' = "pitch_validate"
               /\ UNCHANGED ep_resp
    /\ UNCHANGED <<ep_req, ep_calls, ep_saved>>
    /\ UNCHANGED <<vo_vars, cm_vars, vi_vars, le_vars, fn_vars, rg_vars, bq_vars, dl_vars, rw_vars>>

\* result = validate_idea(extracted idea_name, idea_concept, custom_weights);
\* an exception would be answered by the outer except clause.
PdValidate(in) ==
    /\ ep_pc = "pitch_validate"
    /\ (ep_req.weights = "absent") = (in.weights = "none")
    /\ ep_calls' = ep_calls + 1
    /\ LET r == validate_idea(in)
       IN IF r.exc # "none"
          THEN /\ ep_resp' = Response(500, "pitch_deck_failed", FALSE)
               /\ ep_pc' = "done"
          ELSE /\ ep_resp' = Response(0, r.val.validation_outcome, FALSE)
               /\ ep_pc' = "pitch_save"
    /\ UNCHANGED <<ep_req, ep_queue, ep_saved>>
    /\ UNCHANGED <<vo_vars, cm_vars, vi_vars, le_vars, fn_vars, rg_vars, bq_vars, dl_vars, rw_vars>>

\* The rest of validate_pitch_deck: the report is saved when there is a
\* database manager and save_validation_report does not raise; the result
\* is returned with saved_to_database (and report_id when saved).
PdSaveAndRespond(db) ==
    /\ ep_pc = "pitch_save"
    /\ LET report_id == report_id_after_save(db, ep_saved)
       IN /\ ep_saved' = stored_after_save(db, ep_saved)
          /\ ep_queue' = IF report_id # 0 THEN Append(ep_queue, "saved") ELSE ep_queue
          /\ ep_resp' = result_with_report(ep_resp.kind, report_id)
    /\ ep_pc' = "done"
    /\ UNCHANGED <<ep_req, ep_calls>>
    /\ UNCHANGED <<vo_vars, cm_vars, vi_vars, le_vars, fn_vars, rg_vars, bq_vars, dl_vars, rw_vars>>

\* The calls of validate_idea a pitch deck request can meet.
PdViInputs ==
    {in \in ViInputs : in.weights \in {"none", "numeric", "badvalue"}
                       /\ in.loop = "current" /\ in.msg = "boom"
                       /\ in.score \in {Tenths(30).v, Tenths(40).v}}

\* The bodies of /api/validate-idea of the storage specification: each
\* required field missing, blank, or given.
StorageRequests ==
    {[body |-> "dict", fields |-> fs] :
        fs \in [Range(RequiredFields) -> {Missing, Str(<<" ">>), Str(<<"a">>)}]}

\* The state of the database manager during a request: None (MongoDB was not
\* reachable at start-up), saving, or raising.
DbStates == {"absent", "saves", "raises"}

(***************************************************************************)
(* Score classification: the status class of a cluster card of the HTML    *)
(* report (crew_ai_integration.py) and the overall risk level of a stored  *)
(* report (database_manager.py).  A score is in units of 1/Scale.          *)
(***************************************************************************)
\* Mutant of status_class: the top boundary is exclusive.
status_class_exclusive(score) ==
    IF score > Tenths(40).v THEN "excellent"
    ELSE IF score >= Tenths(30).v THEN "good"
    ELSE IF score >= Tenths(20).v THEN "moderate"
    ELSE "poor"

\* status_class of _generate_cluster_breakdown_html
status_class(score) ==
    IF score >= Tenths(40).v THEN "excellent"
    ELSE IF score >= Tenths(30).v THEN "good"
    ELSE IF score >= Tenths(20).v THEN "moderate"
    ELSE "poor"

\* DatabaseManager._assess_overall_risk_level
assess_overall_risk_level(overall_score) ==
    IF overall_score >= Tenths(40).v THEN "Low Risk"
    ELSE IF overall_score >= Tenths(30).v THEN "Moderate Risk"
    ELSE IF overall_score >= Tenths(20).v THEN "High Risk"
    ELSE "Very High Risk"

\* The scores classified: every multiple of 1/Scale from 0.0 to 6.0.
ClassifiedScores == 0..Tenths(60).v

NoClasses == [status_class |-> "", risk_level |-> ""]

\* _generate_cluster_breakdown_html computes the class of a cluster's card.
ClusterStatusClass ==
    /\ "status_class" \notin fn_pc
    /\ fn_in \in ClassifiedScores
    /\ fn_out' = [fn_out EXCEPT !.status_class = status_class(fn_in)]
    /\ fn_pc' = fn_pc \cup {"status_class"}
    /\ UNCHANGED fn_in
    /\ UNCHANGED <<vo_vars, cm_vars, vi_vars, ep_vars, le_vars, rg_vars, bq_vars, dl_vars, rw_vars>>

\* _generate_detailed_report_data computes the risk level of the report.
AssessOverallRiskLevel ==
    /\ "risk_level" \notin fn_pc
    /\ fn_in \in ClassifiedScores
    /\ fn_out' = [fn_out EXCEPT !.risk_level = assess_overall_risk_level(fn_in)]
    /\ fn_pc' = fn_pc \cup {"risk_level"}
    /\ UNCHANGED fn_in
    /\ UNCHANGED <<vo_vars, cm_vars, vi_vars, ep_vars, le_vars, rg_vars, bq_vars, dl_vars, rw_vars>>

(***************************************************************************)
(* AgentDataProcessor (pdf_report_system/data_processor.py): the cluster   *)
(* scores of a report.  The evaluations of the report's evaluated_data are *)
(* given in the order the nested dicts are iterated; each has its cluster, *)
(* its score and its weight_contribution.  A quotient is kept exact, as    *)
(* numerator and denominator.                                              *)
(***************************************************************************)
\* The most evaluations a report holds.
MaxEvals == 3

ClusterNames == {"X", "Y"}

Evaluation(cluster, score, weight) ==
    [cluster |-> cluster, score |-> score, weight |-> weight]

Evaluations == {Evaluation(c, s, w) : c \in ClusterNames, s \in {2, 4}, w \in {1, 3}}

EvaluatedData == SeqUpTo(Evaluations, MaxEvals)

\* extract_all_agent_conversations: one conversation per evaluation, with the
\* cluster and the score; the weight_contribution is not carried over.
extract_all_agent_conversations(evaluated_data) ==
    [i \in 1..Len(evaluated_data) |->
        [cluster |-> evaluated_data[i].cluster, score |-> evaluated_data[i].score]]

\* The conversations of a cluster, in order.
RECURSIVE ClusterConvs(_, _)
ClusterConvs(conversations, cluster) ==
    IF conversations = <<>> THEN <<>>
    ELSE LET rest == ClusterConvs(Tail(conversations), cluster)
         IN IF Head(conversations).cluster = cluster
            THEN <<Head(conversations)>> \o rest ELSE rest

\* sum(c['score'] for c in convs)
RECURSIVE SumScores(_)
SumScores(convs) ==
    IF convs = <<>> THEN 0 ELSE Head(convs).score + SumScores(Tail(convs))

Quotient(num, den) == [num |-> num, den |-> den]

\* calculate_cluster_scores: for each cluster met, the sum of the scores
\* divided by the number of conversations.
calculate_cluster_scores(conversations) ==
    LET met == {conversations[i].cluster : i \in 1..Len(conversations)}
    IN [c \in met |->
           LET convs == ClusterConvs(conversations, c)
           IN Quotient(SumScores(convs), Len(convs))]

NoSummary == [empty |-> TRUE, overall_score |-> Quotient(0, 1), num_parameters |-> 0]

\* generate_cluster_summary: {} when the cluster has no conversation, else
\* the summary with avg_score = sum of the scores / number of conversations.
generate_cluster_summary(cluster_name, conversations) ==
    LET cluster_convs == ClusterConvs(conversations, cluster_name)
    IN IF cluster_convs = <<>> THEN NoSummary
       ELSE [empty |-> FALSE,
             overall_score |-> Quotient(SumScores(cluster_convs), Len(cluster_convs)),
             num_parameters |-> Len(cluster_convs)]

NoClusterScores == [cluster_scores |-> <<>>, summary |-> NoSummary, summary_of |-> ""]

\* process_complete_report_data computes the cluster scores of the report.
CalculateClusterScores ==
    /\ "cluster_scores" \notin fn_pc
    /\ fn_out' = [fn_out EXCEPT !.cluster_scores =
                     calculate_cluster_scores(extract_all_agent_conversations(fn_in))]
    /\ fn_pc' = fn_pc \cup {"cluster_scores"}
    /\ UNCHANGED fn_in
    /\ UNCHANGED <<vo_vars, cm_vars, vi_vars, ep_vars, le_vars, rg_vars, bq_vars, dl_vars, rw_vars>>

\* generate_cluster_summary is called for a cluster.
GenerateClusterSummary(cluster) ==
    /\ "summary" \notin fn_pc
    /\ fn_out' = [fn_out EXCEPT
                     !.summary = generate_cluster_summary(
                                    cluster, extract_all_agent_conversations(fn_in)),
                     !.summary_of = cluster]
    /\ fn_pc' = fn_pc \cup {"summary"}
    /\ UNCHANGED fn_in
    /\ UNCHANGED <<vo_vars, cm_vars, vi_vars, ep_vars, le_vars, rg_vars, bq_vars, dl_vars, rw_vars>>

(***************************************************************************)
(* Custom cluster weights.  validate_idea converts the values the caller   *)
(* gave with float() and hands the dict to the run; the aggregation of the *)
(* run renormalizes them as the specification of the Score Aggregator      *)
(* says.  A weight is a float in units of 1/Scale.                         *)
(***************************************************************************)
\* The values a caller gives a cluster: numbers, NaN, and a string float()
\* rejects.
WeightFields ==
    {Field("num", Tenths(x).v) : x \in {-5, 0, 5, 9, 15}}
    \cup {Field("nan", 0), Field("badstr", 0)}

\* The weights argument: None, or a dict from some clusters to values.
NoWeights == [given |-> FALSE, w |-> <<>>]

CustomWeights ==
    {NoWeights}
    \cup {[given |-> TRUE, w |-> f] : f \in UNION {[S -> WeightFields] : S \in SUBSET ClusterNames}}

\* "custom_weights = None; if weights: custom_weights = {k: float(v) ...}":
\* None for None and for the empty dict, else the dict of floats, or the
\* exception of float().
weights_to_float(weights) ==
    IF ~weights.given \/ DOMAIN weights.w = {} THEN Ok(NoWeights)
    ELSE IF \E c \in DOMAIN weights.w : PyFloat(weights.w[c]).exc # "none"
    THEN Raise("ValueError")
    ELSE Ok([given |-> TRUE, w |-> [c \in DOMAIN weights.w |-> PyFloat(weights.w[c]).val]])

\* The default weight of every cluster: an equal split.
DefaultClusterWeight == Fin(Scale \div Cardinality(ClusterNames))

\* a + b on floats (no infinities occur).
FAdd(a, b) == IF a.k = "nan" \/ b.k = "nan" THEN NaN ELSE Fin(a.v + b.v)

\* The sum of f over the clusters of S.
RECURSIVE FSum(_, _)
FSum(f, S) ==
    IF S = {} THEN Fin(0)
    ELSE LET c == CHOOSE x \in S : TRUE IN FAdd(f[c], FSum(f, S \ {c}))

\* The cluster weights of a run: an override replaces the weight of the
\* cluster it names, and the defaults of the other clusters are rescaled to
\* fill the remainder 1.0 - (sum of the overrides).
cluster_weights(custom) ==
    IF ~custom.given THEN [c \in ClusterNames |-> DefaultClusterWeight]
    ELSE LET named == DOMAIN custom.w
             rest == ClusterNames \ named
             given == FSum(custom.w, named)
             defaults == FSum([c \in ClusterNames |-> DefaultClusterWeight], rest)
         IN [c \in ClusterNames |->
                IF c \in named THEN custom.w[c]
                ELSE IF given.k = "nan" THEN NaN
                ELSE Fin(((Scale - given.v) * DefaultClusterWeight.v) \div defaults.v)]

\* The sum of the weights the aggregation uses, cluster_weight / sum of the
\* cluster weights: NaN, or a quotient (the division raises when the sum of
\* the cluster weights is zero).
used_weights_sum(weights) ==
    LET total == FSum(weights, ClusterNames)
    IN IF total.k = "nan" THEN Ok([nan |-> TRUE, q |-> Quotient(0, 1)])
       ELSE IF total.v = 0 THEN Raise("ZeroDivisionError")
       ELSE Ok([nan |-> FALSE, q |-> Quotient(total.v, total.v)])

NoAggregation == [custom |-> NoWeights, weights |-> <<>>, sum |-> [nan |-> FALSE, q |-> Quotient(0, 1)]]

\* validate_idea converts the weights; when float() raises, the call returns
\* the fallback dict and there is no run.
ConvertWeights ==
    /\ fn_pc = {}
    /\ LET r == weights_to_float(fn_in)
       IN IF r.exc = "none"
          THEN /\ fn_out' = [fn_out EXCEPT !.custom = r.val]
               /\ fn_pc' = {"converted"}
          ELSE /\ fn_pc' = {"fallback"}
               /\ UNCHANGED fn_out
    /\ UNCHANGED fn_in
    /\ UNCHANGED <<vo_vars, cm_vars, vi_vars, ep_vars, le_vars, rg_vars, bq_vars, dl_vars, rw_vars>>

\* The run aggregates with the cluster weights; a division by zero fails the
\* run, which validate_idea answers with the fallback dict.
AggregateWithWeights ==
    /\ fn_pc = {"converted"}
    /\ LET weights == cluster_weights(fn_out.custom)
           s == used_weights_sum(weights)
       IN IF s.exc = "none"
          THEN /\ fn_out' = [fn_out EXCEPT !.weights = weights, !.sum = s.val]
               /\ fn_pc' = {"converted", "aggregated"}
          ELSE /\ fn_pc' = {"converted", "fallback"}
               /\ UNCHANGED fn_out
    /\ UNCHANGED fn_in
    /\ UNCHANGED <<vo_vars, cm_vars, vi_vars, ep_vars, le_vars, rg_vars, bq_vars, dl_vars, rw_vars>>

(***************************************************************************)
(* From the evaluations of a run to the result dict and to the report      *)
(* data: the aggregation of the run (as the specification of the Score     *)
(* Aggregator describes it), _convert_to_legacy_format with the HTML       *)
(* report and the nested evaluated_data, and the AgentDataProcessor.       *)
(***************************************************************************)
\* The evaluations of a cluster, in order.
RECURSIVE ClusterEvals(_, _)
ClusterEvals(evaluated_data, cluster) ==
    IF evaluated_data = <<>> THEN <<>>
    ELSE LET rest == ClusterEvals(Tail(evaluated_data), cluster)
         IN IF Head(evaluated_data).cluster = cluster
            THEN <<Head(evaluated_data)>> \o rest ELSE rest

RECURSIVE SumWeights(_)
SumWeights(evals) ==
    IF evals = <<>> THEN 0 ELSE Head(evals).weight + SumWeights(Tail(evals))

RECURSIVE SumWeightedScores(_)
SumWeightedScores(evals) ==
    IF evals = <<>> THEN 0
    ELSE Head(evals).score * Head(evals).weight + SumWeightedScores(Tail(evals))

\* The clusters of the evaluations, in the order of their first appearance.
RECURSIVE ClustersInOrder(_)
ClustersInOrder(evaluations) ==
    IF evaluations = <<>> THEN <<>>
    ELSE LET before == ClustersInOrder(SubSeq(evaluations, 1, Len(evaluations) - 1))
             c == evaluations[Len(evaluations)].cluster
         IN IF c \in Range(before) THEN before ELSE Append(before, c)

\* a <= b on quotients with positive denominators.
QLeq(a, b) == a.num * b.den <= b.num * a.den

\* The value of a quotient in units of 1/Scale, rounded down.
QUnits(q) == (q.num * Scale) \div q.den

\* The mean of the cluster scores (equal cluster weights).
RECURSIVE QSum(_, _)
QSum(scores, S) ==
    IF S = {} THEN Quotient(0, 1)
    ELSE LET c == CHOOSE x \in S : TRUE
             rest == QSum(scores, S \ {c})
         IN Quotient(scores[c].num * rest.den + rest.num * scores[c].den,
                     scores[c].den * rest.den)

\* aggregate(evaluations): the cluster scores, the overall score, the outcome
\* and the consensus level; for no evaluations the defaults 3.0, MODERATE
\* and 0.  The consensus of a run with evaluations is given.
aggregate(evaluations, consensus) ==
    IF evaluations = <<>>
    THEN [overall_score |-> Quotient(3, 1), validation_outcome |-> "MODERATE",
          consensus_level |-> 0, cluster_scores |-> <<>>,
          collaboration_insights |-> <<>>, agent_evaluations |-> evaluations]
    ELSE LET met == Range(ClustersInOrder(evaluations))
             scores == [c \in met |->
                           Quotient(SumWeightedScores(ClusterEvals(evaluations, c)),
                                    SumWeights(ClusterEvals(evaluations, c)))]
             total == QSum(scores, met)
             overall == Quotient(total.num, total.den * Cardinality(met))
         IN [overall_score |-> overall,
             validation_outcome |-> ValidationOutcomeOf(QUnits(overall)),
             consensus_level |-> consensus, cluster_scores |-> scores,
             collaboration_insights |-> <<"insight">>,
             agent_evaluations |-> evaluations]

\* max(cluster_scores.items(), key=lambda x: x[1]): ValueError when empty.
max_cluster(cluster_scores) ==
    IF DOMAIN cluster_scores = {} THEN Raise("ValueError")
    ELSE Ok(CHOOSE c \in DOMAIN cluster_scores :
                \A d \in DOMAIN cluster_scores : QLeq(cluster_scores[d], cluster_scores[c]))

\* min(cluster_scores.items(), key=lambda x: x[1]): ValueError when empty.
min_cluster(cluster_scores) ==
    IF DOMAIN cluster_scores = {} THEN Raise("ValueError")
    ELSE Ok(CHOOSE c \in DOMAIN cluster_scores :
                \A d \in DOMAIN cluster_scores : QLeq(cluster_scores[c], cluster_scores[d]))

\* Mutant of generate_html_report: max and min are taken without the test
\* "if cluster_scores".
generate_html_report_unguarded(validation_result) ==
    LET best == max_cluster(validation_result.cluster_scores)
        worst == min_cluster(validation_result.cluster_scores)
    IN IF best.exc # "none" THEN best
       ELSE IF worst.exc # "none" THEN worst
       ELSE Ok([best_cluster |-> best.val, worst_cluster |-> worst.val,
                cards |-> [c \in DOMAIN validation_result.cluster_scores |->
                              status_class(QUnits(validation_result.cluster_scores[c]))],
                insights |-> Len(validation_result.collaboration_insights)])

\* _generate_html_report: the best and the worst cluster ("N/A" when there
\* are no cluster scores), one card per cluster, one card per insight.
generate_html_report(validation_result) ==
    LET scores == validation_result.cluster_scores
        best == IF DOMAIN scores # {} THEN max_cluster(scores) ELSE Ok("N/A")
        worst == IF DOMAIN scores # {} THEN min_cluster(scores) ELSE Ok("N/A")
    IN IF best.exc # "none" THEN best
       ELSE IF worst.exc # "none" THEN worst
       ELSE Ok([best_cluster |-> best.val, worst_cluster |-> worst.val,
                cards |-> [c \in DOMAIN scores |-> status_class(QUnits(scores[c]))],
                insights |-> Len(validation_result.collaboration_insights)])

\* _convert_evaluations_to_legacy_format: the nested dict, a cluster's
\* evaluations under the cluster, the clusters in the order they were met.
convert_evaluations_to_legacy_format(evaluations) ==
    [order |-> ClustersInOrder(evaluations),
     by |-> [c \in Range(ClustersInOrder(evaluations)) |-> ClusterEvals(evaluations, c)]]

ErrorPage == [best_cluster |-> "", worst_cluster |-> "", cards |-> <<>>, insights |-> 0]

\* _convert_to_legacy_format inside PragatiCrewAIValidator.validate_idea: the
\* dict of the result, or the fallback dict when the conversion raises.
legacy_result(validation_result) ==
    LET html == generate_html_report(validation_result)
    IN IF html.exc # "none"
       THEN [keys |-> ValidatorFallbackKeys, overall_score |-> Quotient(3, 1),
             validation_outcome |-> "MODERATE", consensus_level |-> 0,
             evaluated_data |-> convert_evaluations_to_legacy_format(<<>>),
             html_report |-> ErrorPage, error |-> ErrStr(html.msg)]
       ELSE [keys |-> LegacyKeys, overall_score |-> validation_result.overall_score,
             validation_outcome |-> validation_result.validation_outcome,
             consensus_level |-> validation_result.consensus_level,
             evaluated_data |->
                 convert_evaluations_to_legacy_format(validation_result.agent_evaluations),
             html_report |-> html.val, error |-> NoError]

\* The evaluations of evaluated_data in the order the nested dict is iterated.
RECURSIVE FlattenEvaluatedData(_, _)
FlattenEvaluatedData(by, order) ==
    IF order = <<>> THEN <<>>
    ELSE by[Head(order)] \o FlattenEvaluatedData(by, Tail(order))

\* process_complete_report_data: {} when there are no conversations, else
\* the report data with the cluster scores.
process_complete_report_data(evaluated_data) ==
    LET conversations == extract_all_agent_conversations(
                            FlattenEvaluatedData(evaluated_data.by, evaluated_data.order))
    IN IF conversations = <<>> THEN [empty |-> TRUE, cluster_scores |-> <<>>]
       ELSE [empty |-> FALSE, cluster_scores |-> calculate_cluster_scores(conversations)]

\* The consensus levels of a run with evaluations, in units of 1/Scale.
ConsensusLevels == {0, Scale \div 2, Scale}

NoValidation ==
    [result |-> aggregate(<<>>, 0), legacy |-> legacy_result(aggregate(<<>>, 0)),
     report_data |-> [empty |-> TRUE, cluster_scores |-> <<>>],
     cluster_scores |-> <<>>]

\* The run aggregates its evaluations.
Aggregate(consensus) ==
    /\ fn_pc = {}
    /\ fn_out' = [fn_out EXCEPT !.result = aggregate(fn_in, consensus)]
    /\ fn_pc' = {"aggregated"}
    /\ UNCHANGED fn_in
    /\ UNCHANGED <<vo_vars, cm_vars, vi_vars, ep_vars, le_vars, rg_vars, bq_vars, dl_vars, rw_vars>>

\* PragatiCrewAIValidator.validate_idea converts the result of the run.
ConvertToLegacyFormat ==
    /\ fn_pc = {"aggregated"}
    /\ fn_out' = [fn_out EXCEPT !.legacy = legacy_result(fn_out.result)]
    /\ fn_pc' = {"aggregated", "converted"}
    /\ UNCHANGED fn_in
    /\ UNCHANGED <<vo_vars, cm_vars, vi_vars, ep_vars, le_vars, rg_vars, bq_vars, dl_vars, rw_vars>>

\* The report system processes the evaluated_data of the result.
ProcessReportData ==
    /\ fn_pc = {"aggregated", "converted"}
    /\ fn_out' = [fn_out EXCEPT
                     !.report_data = process_complete_report_data(fn_out.legacy.evaluated_data),
                     !.cluster_scores = calculate_cluster_scores(
                         extract_all_agent_conversations(
                             FlattenEvaluatedData(fn_out.legacy.evaluated_data.by,
                                                  fn_out.legacy.evaluated_data.order)))]
    /\ fn_pc' = {"aggregated", "converted", "processed"}
    /\ UNCHANGED fn_in
    /\ UNCHANGED <<vo_vars, cm_vars, vi_vars, ep_vars, le_vars, rg_vars, bq_vars, dl_vars, rw_vars>>

(***************************************************************************)
(* GET /api/report/<report_id>/generate (report_endpoints.py), for one     *)
(* report_id and several requests served concurrently.  The handler calls  *)
(* db_manager.get_ai_report and db_manager.save_ai_report, which the       *)
(* DatabaseManager of database_manager.py does not define: with it the     *)
(* call raises AttributeError.  With a database manager that has the two   *)
(* methods, they are modelled from their use in the handler: get_ai_report *)
(* returns the cached document or nothing, save_ai_report stores the       *)
(* report and returns whether it succeeded.                                *)
(***************************************************************************)
\* The number of requests for the report.
NRequests == 3

Requesters == 1..NRequests

RgResponse(status, cached, after, report) ==
    [status |-> status, cached |-> cached, after |-> after, report |-> report]

RgNoResponse == RgResponse(0, FALSE, FALSE, 0)

\* db_manager.get_ai_report(report_id): the cached document (the generation
\* that wrote it; 0: none), or AttributeError.
get_ai_report(db, cache) ==
    IF db = "caching" THEN Ok(cache) ELSE Raise("AttributeError")

\* db_manager.save_ai_report(report_id, ai_report): the cache after the
\* call, and the success flag returned.
save_ai_report(cache, generation, succeeds) ==
    [cache |-> IF succeeds THEN generation ELSE cache, save_success |-> succeeds]

\* generate_ai_report up to the generation: the database manager, the cached
\* report, the stored report and its conversations.  The response when the
\* handler returns here, RgNoResponse when it goes on to generate.
generate_ai_report_checks(db, cache, report, after) ==
    IF db = "unreachable" THEN RgResponse(500, FALSE, after, 0)
    ELSE LET cached_report == get_ai_report(db, cache)
         IN IF cached_report.exc # "none" THEN RgResponse(500, FALSE, after, 0)
            ELSE IF cached_report.val # 0 THEN RgResponse(200, TRUE, after, cached_report.val)
            ELSE IF report = "missing" THEN RgResponse(404, FALSE, after, 0)
            ELSE IF report = "no_conversations" THEN RgResponse(404, FALSE, after, 0)
            ELSE RgNoResponse

\* A request arrives and the handler runs up to the generation.
RgCheckCache(q) ==
    /\ rg_pc[q] = "start"
    /\ LET r == generate_ai_report_checks(rg_db, rg_cache, rg_report, rg_done > 0)
       IN IF r # RgNoResponse
          THEN /\ rg_resp' = [rg_resp EXCEPT ![q] = r]
               /\ rg_pc' = [rg_pc EXCEPT ![q] = "done"]
          ELSE /\ rg_resp' = [rg_resp EXCEPT ![q] = RgResponse(0, FALSE, rg_done > 0, 0)]
               /\ rg_pc' = [rg_pc EXCEPT ![q] = "write"]
    /\ UNCHANGED <<rg_db, rg_report, rg_cache, rg_runs, rg_done>>
    /\ UNCHANGED <<vo_vars, cm_vars, vi_vars, ep_vars, le_vars, fn_vars, bq_vars, dl_vars, rw_vars>>

\* writer.write_comprehensive_report(...) runs: it returns the report, or
\* raises and the request is answered 500.
RgWriteReport(q, raises) ==
    /\ rg_pc[q] = "write"
    /\ rg_runs' = rg_runs + 1
    /\ IF raises
       THEN /\ rg_resp' = [rg_resp EXCEPT ![q] = RgResponse(500, FALSE, @.after, 0)]
            /\ rg_pc' = [rg_pc EXCEPT ![q] = "done"]
            /\ UNCHANGED rg_done
       ELSE /\ rg_resp' = [rg_resp EXCEPT ![q] = RgResponse(0, FALSE, @.after, rg_runs + 1)]
            /\ rg_pc' = [rg_pc EXCEPT ![q] = "save"]
            /\ rg_done' = rg_done + 1
    /\ UNCHANGED <<rg_db, rg_report, rg_cache>>
    /\ UNCHANGED <<vo_vars, cm_vars, vi_vars, ep_vars, le_vars, fn_vars, bq_vars, dl_vars, rw_vars>>

\* save_ai_report, then the response with cached = False.
RgSaveAndRespond(q, succeeds) ==
    /\ rg_pc[q] = "save"
    /\ rg_cache' = save_ai_report(rg_cache, rg_resp[q].report, succeeds).cache
    /\ rg_resp' = [rg_resp EXCEPT ![q] = RgResponse(200, FALSE, @.after, @.report)]
    /\ rg_pc' = [rg_pc EXCEPT ![q] = "done"]
    /\ UNCHANGED <<rg_db, rg_report, rg_runs, rg_done>>
    /\ UNCHANGED <<vo_vars, cm_vars, vi_vars, ep_vars, le_vars, fn_vars, bq_vars, dl_vars, rw_vars>>

(***************************************************************************)
(* The agent message stream (app_v3.py): broadcast_agent_message puts each *)
(* message on the one module-level agent_message_queue, and the event      *)
(* stream of every client connected to /api/agent-stream takes messages    *)
(* from that queue.  Messages are numbered in the order of broadcast.  The *)
(* heartbeat an event stream yields when the queue stays empty is no       *)
(* broadcast message and changes nothing here.                             *)
(***************************************************************************)
\* The number of clients of /api/agent-stream.
NClients == 2

\* The number of messages broadcast.
MaxMessages == 3

Clients == 1..NClients

\* event_stream starts: active_connections.add(connection_id).
BqConnect(c) ==
    /\ c \notin bq_conns
    /\ bq_conns' = bq_conns \cup {c}
    /\ UNCHANGED <<bq_queue, bq_recv, bq_sent, bq_audience>>
    /\ UNCHANGED <<vo_vars, cm_vars, vi_vars, ep_vars, le_vars, fn_vars, rg_vars, dl_vars, rw_vars>>

\* The client closes the stream: active_connections.discard(connection_id).
BqDisconnect(c) ==
    /\ c \in bq_conns
    /\ bq_conns' = bq_conns \ {c}
    /\ UNCHANGED <<bq_queue, bq_recv, bq_sent, bq_audience>>
    /\ UNCHANGED <<vo_vars, cm_vars, vi_vars, ep_vars, le_vars, fn_vars, rg_vars, dl_vars, rw_vars>>

\* agent_message_queue.put(json_data, block=False) on the unbounded queue.
queue_put(q, message) == Append(q, message)

\* agent_message_queue.get(timeout=1.0) on a non-empty queue: the message
\* taken and the queue left.
queue_get(q) == [message |-> Head(q), queue |-> Tail(q)]

\* broadcast_agent_message(agent_name, message, message_type).
broadcast_agent_message ==
    /\ bq_sent < MaxMessages
    /\ bq_sent' = bq_sent + 1
    /\ bq_queue' = queue_put(bq_queue, bq_sent + 1)
    /\ bq_audience' = [m \in 1..(bq_sent + 1) |->
                          IF m = bq_sent + 1 THEN bq_conns ELSE bq_audience[m]]
    /\ UNCHANGED <<bq_conns, bq_recv>>
    /\ UNCHANGED <<vo_vars, cm_vars, vi_vars, ep_vars, le_vars, fn_vars, rg_vars, dl_vars, rw_vars>>

\* One round of the loop of event_stream of client c with a message waiting:
\* the message is taken from the queue and yielded to c.
event_stream(c) ==
    /\ c \in bq_conns
    /\ bq_queue # <<>>
    /\ LET g == queue_get(bq_queue)
       IN /\ bq_queue' = g.queue
          /\ bq_recv' = [bq_recv EXCEPT ![c] = Append(@, g.message)]
    /\ UNCHANGED <<bq_conns, bq_sent, bq_audience>>
    /\ UNCHANGED <<vo_vars, cm_vars, vi_vars, ep_vars, le_vars, fn_vars, rg_vars, dl_vars, rw_vars>>

(***************************************************************************)
(* AgentDataProcessor: the strengths, weaknesses and recommendations of a  *)
(* report.  The conversations come from a pipeline result, so their scores *)
(* are on the scale 1.0 to 5.0 (validate_output clamps them); a score is   *)
(* kept in tenths.  A conversation carries some strengths, weaknesses and  *)
(* recommendations, each named by the index of its conversation and its    *)
(* own number.                                                             *)
(***************************************************************************)
\* The most conversations of a report.
MaxConvs == 2

\* The most items (strengths, weaknesses, recommendations) of a conversation.
MaxItems == 1

\* n written in tenths, the unit of the conversation scores.
InTenths(n) == 10 * n

ReportConversation ==
    [score : {10, 25, 40, 50},
     strengths : 0..MaxItems, weaknesses : 0..MaxItems, recommendations : 0..MaxItems]

ReportConversations == SeqUpTo(ReportConversation, MaxConvs)

\* sorted(items, key=...) and list.sort(key=...): Python's stable sort, on
\* entries that carry their sort key, by insertion.
RECURSIVE Insert(_, _)
Insert(sorted, x) ==
    IF sorted = <<>> THEN <<x>>
    ELSE IF x.key < Head(sorted).key THEN <<x>> \o sorted
    ELSE <<Head(sorted)>> \o Insert(Tail(sorted), x)

RECURSIVE StableSort(_)
StableSort(items) ==
    IF items = <<>> THEN <<>>
    ELSE LET sorted == StableSort(SubSeq(items, 1, Len(items) - 1))
             x == items[Len(items)]
         IN IF sorted = <<>> \/ sorted[Len(sorted)].key <= x.key
            THEN Append(sorted, x)
            ELSE Insert(sorted, x)

\* The lists appended per conversation, one after the other.
RECURSIVE Concat(_)
Concat(lists) ==
    IF lists = <<>> THEN <<>> ELSE Head(lists) \o Concat(Tail(lists))

\* _get_severity
get_severity(score) ==
    IF score < InTenths(30) THEN "Critical"
    ELSE IF score < InTenths(50) THEN "High"
    ELSE "Moderate"

\* extract_strengths_and_weaknesses; the strengths are sorted by score,
\* highest first, the weaknesses by score, lowest first.
extract_strengths_and_weaknesses(conversations) ==
    LET all_strengths ==
            Concat([i \in 1..Len(conversations) |->
                IF conversations[i].score >= InTenths(70)
                THEN [k \in 1..conversations[i].strengths |->
                         [conv |-> i, item |-> k, score |-> conversations[i].score,
                          key |-> 0 - conversations[i].score]]
                ELSE <<>>])
        all_weaknesses ==
            Concat([i \in 1..Len(conversations) |->
                IF conversations[i].score < InTenths(60)
                THEN [k \in 1..conversations[i].weaknesses |->
                         [conv |-> i, item |-> k, score |-> conversations[i].score,
                          severity |-> get_severity(conversations[i].score),
                          key |-> conversations[i].score]]
                ELSE <<>>])
    IN [strengths |-> StableSort(all_strengths),
        weaknesses |-> StableSort(all_weaknesses)]

\* priority_order of extract_recommendations
priority_order(priority) ==
    CASE priority = "High" -> 0 [] priority = "Medium" -> 1 [] OTHER -> 2

\* The priority extract_recommendations gives to a score.
priority_of(score) ==
    IF score < InTenths(50) THEN "High"
    ELSE IF score < InTenths(70) THEN "Medium"
    ELSE "Low"

\* extract_recommendations
extract_recommendations(conversations) ==
    LET all_recommendations ==
            Concat([i \in 1..Len(conversations) |->
                [k \in 1..conversations[i].recommendations |->
                    [conv |-> i, item |-> k,
                     priority |-> priority_of(conversations[i].score),
                     key |-> priority_order(priority_of(conversations[i].score))]]])
    IN StableSort(all_recommendations)

NoExtraction == [strengths |-> <<>>, weaknesses |-> <<>>, recommendations |-> <<>>]

\* process_complete_report_data: 'strengths_weaknesses'
ExtractStrengthsAndWeaknesses ==
    /\ "strengths_weaknesses" \notin fn_pc
    /\ LET sw == extract_strengths_and_weaknesses(fn_in)
       IN fn_out' = [fn_out EXCEPT !.strengths = sw.strengths, !.weaknesses = sw.weaknesses]
    /\ fn_pc' = fn_pc \cup {"strengths_weaknesses"}
    /\ UNCHANGED fn_in
    /\ UNCHANGED <<vo_vars, cm_vars, vi_vars, ep_vars, le_vars, rg_vars, bq_vars, dl_vars, rw_vars>>

\* process_complete_report_data: 'recommendations'
ExtractRecommendations ==
    /\ "recommendations" \notin fn_pc
    /\ fn_out' = [fn_out EXCEPT !.recommendations = extract_recommendations(fn_in)]
    /\ fn_pc' = fn_pc \cup {"recommendations"}
    /\ UNCHANGED fn_in
    /\ UNCHANGED <<vo_vars, cm_vars, vi_vars, ep_vars, le_vars, rg_vars, bq_vars, dl_vars, rw_vars>>

(***************************************************************************)
(* GET /api/report/<report_id>/download (report_endpoints.py) once the     *)
(* report has been found: the thread running generate_pdf reports progress *)
(* through progress_callback and finishes with a 'complete' or an 'error'  *)
(* item, and generate() turns the items of progress_queue into the events  *)
(* of the response.  Progress updates are numbered in the order they are   *)
(* reported; every item is a dict of strings and numbers, which json.dumps *)
(* serialises.                                                             *)
(***************************************************************************)
\* The most progress updates generate_validation_report reports.
MaxProgress == 3

\* The most keepalive events a stream yields.
MaxKeepalives == 2

ProgressItem(n) == [type |-> "progress", n |-> n]
TerminalItem(type) == [type |-> type, n |-> 0]
Keepalive == [type |-> "keepalive", n |-> 0]

\* progress_callback(message, progress), called by generate_validation_report.
progress_callback ==
    /\ dl_thread = "running"
    /\ dl_reported < MaxProgress
    /\ dl_reported' = dl_reported + 1
    /\ dl_queue' = Append(dl_queue, ProgressItem(dl_reported + 1))
    /\ UNCHANGED <<dl_result, dl_thread, dl_stream, dl_open, dl_keepalives>>
    /\ UNCHANGED <<vo_vars, cm_vars, vi_vars, ep_vars, le_vars, fn_vars, rg_vars, bq_vars, rw_vars>>

\* generate_pdf: generate_validation_report has returned; pdf_result gets
\* the buffer and the file name.
DlStoreResult ==
    /\ dl_thread = "running"
    /\ dl_result' = dl_result \cup {"buffer", "filename"}
    /\ dl_thread' = "stored"
    /\ UNCHANGED <<dl_queue, dl_reported, dl_stream, dl_open, dl_keepalives>>
    /\ UNCHANGED <<vo_vars, cm_vars, vi_vars, ep_vars, le_vars, fn_vars, rg_vars, bq_vars, rw_vars>>

\* generate_pdf: progress_queue.put({'type': 'complete'})
DlPutComplete ==
    /\ dl_thread = "stored"
    /\ dl_queue' = Append(dl_queue, TerminalItem("complete"))
    /\ dl_thread' = "done"
    /\ UNCHANGED <<dl_result, dl_reported, dl_stream, dl_open, dl_keepalives>>
    /\ UNCHANGED <<vo_vars, cm_vars, vi_vars, ep_vars, le_vars, fn_vars, rg_vars, bq_vars, rw_vars>>

\* generate_pdf, except clause: pdf_result['error'] = str(e)
DlStoreError ==
    /\ dl_thread = "running"
    /\ dl_result' = dl_result \cup {"error"}
    /\ dl_thread' = "failed"
    /\ UNCHANGED <<dl_queue, dl_reported, dl_stream, dl_open, dl_keepalives>>
    /\ UNCHANGED <<vo_vars, cm_vars, vi_vars, ep_vars, le_vars, fn_vars, rg_vars, bq_vars, rw_vars>>

\* generate_pdf, except clause: progress_queue.put({'type': 'error', ...})
DlPutError ==
    /\ dl_thread = "failed"
    /\ dl_queue' = Append(dl_queue, TerminalItem("error"))
    /\ dl_thread' = "done"
    /\ UNCHANGED <<dl_result, dl_reported, dl_stream, dl_open, dl_keepalives>>
    /\ UNCHANGED <<vo_vars, cm_vars, vi_vars, ep_vars, le_vars, fn_vars, rg_vars, bq_vars, rw_vars>>

\* Mutant of ends_stream: only a 'complete' item ends the loop.
ends_stream_on_complete_only(item) == item.type = "complete"

\* generate(): the items after which the loop breaks.
ends_stream(item) == item.type \in {"complete", "error"}

\* generate(): one round of the loop with an item waiting; the event is
\* yielded and the loop ends after a terminal item.
DlStreamItem ==
    /\ dl_open
    /\ dl_queue # <<>>
    /\ dl_stream' = Append(dl_stream, Head(dl_queue))
    /\ dl_queue' = Tail(dl_queue)
    /\ dl_open' = ~ends_stream(Head(dl_queue))
    /\ UNCHANGED <<dl_result, dl_thread, dl_reported, dl_keepalives>>
    /\ UNCHANGED <<vo_vars, cm_vars, vi_vars, ep_vars, le_vars, fn_vars, rg_vars, bq_vars, rw_vars>>

\* generate(): queue.Empty after the timeout, the keepalive event.
DlStreamKeepalive ==
    /\ dl_open
    /\ dl_queue = <<>>
    /\ dl_keepalives < MaxKeepalives
    /\ dl_keepalives' = dl_keepalives + 1
    /\ dl_stream' = Append(dl_stream, Keepalive)
    /\ UNCHANGED <<dl_queue, dl_result, dl_thread, dl_reported, dl_open>>
    /\ UNCHANGED <<vo_vars, cm_vars, vi_vars, ep_vars, le_vars, fn_vars, rg_vars, bq_vars, rw_vars>>

(***************************************************************************)
(* AIReportWriter.write_comprehensive_report (report_writer.py).  The      *)
(* conversations are given by their clusters.  Every section is written by *)
(* one call of the language model, whose reply is one of                   *)
(*   raises      the call raises                                           *)
(*   not_json    the text is not valid JSON                                *)
(*   json        a JSON object of the shape the prompt asks for            *)
(*   json_other  valid JSON of another shape: a non-empty array            *)
(* A progress value current_step / total_steps * 100 is kept as the        *)
(* integer current_step * 100, in units of 1/total_steps.                  *)
(***************************************************************************)
\* The most conversations of a report.
MaxRwConvs == 3

Replies == {"raises", "not_json", "json", "json_other"}

\* The sections written after the cluster reports, in order.
Sections ==
    <<"executive_summary", "market_analysis", "trl_analysis", "pros_cons",
      "weaknesses_analysis", "conclusion">>

\* Mutant of total_steps: two of the steps are not counted.
total_steps_short(agent_conversations) ==
    5 + Cardinality({agent_conversations[i].cluster : i \in 1..Len(agent_conversations)})

\* total_steps = 7 + len(set(c.get('cluster', 'Unknown') for c in ...))
total_steps(agent_conversations) ==
    7 + Cardinality({agent_conversations[i].cluster : i \in 1..Len(agent_conversations)})

\* _group_by_cluster: the keys of the grouping, in insertion order.
group_by_cluster(conversations) == ClustersInOrder(conversations)

\* The value current_step / total_steps * 100, in units of 1/total_steps.
progress_value(current_step) == current_step * 100

\* The value 100 of the last update, in units of 1/total_steps.
progress_complete(agent_conversations) == 100 * total_steps(agent_conversations)

\* What a _write_... method returns for a reply: the try block and its
\* except clause.  "ai" is the parsed object with the fields the method
\* adds, "fallback" the result of the _create_fallback_... method, "other"
\* the parsed value returned as it is.
\*   _write_cluster_report reads report['parameters'], _write_executive_summary
\*   and _write_conclusion assign a key: on an array these raise inside try.
section_result(section, reply) ==
    CASE reply \in {"raises", "not_json"} -> "fallback"
      [] reply = "json" -> "ai"
      [] OTHER -> IF section \in {"cluster_report", "executive_summary", "conclusion"}
                  THEN "fallback" ELSE "other"

\* Mutant of conclusion_context_raises: the fallback analyses break it too.
conclusion_context_raises_on_fallback(market_analysis, trl_analysis) ==
    market_analysis \in {"other", "fallback"} \/ trl_analysis \in {"other", "fallback"}

\* _write_conclusion, before its try block: market_analysis.get('tam', {})
\* and trl_analysis.get('current_trl', {}) raise AttributeError on a value
\* that is no dict.
conclusion_context_raises(market_analysis, trl_analysis) ==
    market_analysis = "other" \/ trl_analysis = "other"

\* The first update, the grouping, and the update after it.
RwGroupByCluster ==
    /\ rw_pc = "start"
    /\ rw_step' = 1
    /\ rw_progress' = <<0, progress_value(1)>>
    /\ rw_pc' = "writing"
    /\ UNCHANGED <<rw_convs, rw_clusters, rw_sections, rw_replies, rw_report>>
    /\ UNCHANGED <<vo_vars, cm_vars, vi_vars, ep_vars, le_vars, fn_vars, rg_vars, bq_vars, dl_vars>>

\* One round of the loop over the clusters.
RwWriteClusterReport(reply) ==
    /\ rw_pc = "writing"
    /\ Len(rw_clusters) < Len(group_by_cluster(rw_convs))
    /\ rw_progress' = Append(rw_progress, progress_value(rw_step))
    /\ rw_clusters' = Append(rw_clusters,
                             [cluster |-> group_by_cluster(rw_convs)[Len(rw_clusters) + 1],
                              result |-> section_result("cluster_report", reply)])
    /\ rw_step' = rw_step + 1
    /\ rw_replies' = rw_replies \cup {reply}
    /\ UNCHANGED <<rw_convs, rw_pc, rw_sections, rw_report>>
    /\ UNCHANGED <<vo_vars, cm_vars, vi_vars, ep_vars, le_vars, fn_vars, rg_vars, bq_vars, dl_vars>>

\* The executive summary, the market, TRL, pros and cons and weaknesses
\* analyses: the update, then the section.
RwWriteSection(reply) ==
    /\ rw_pc = "writing"
    /\ Len(rw_clusters) = Len(group_by_cluster(rw_convs))
    /\ Len(rw_sections) < Len(Sections) - 1
    /\ LET section == Sections[Len(rw_sections) + 1]
       IN rw_sections' = Append(rw_sections,
                                [section |-> section, result |-> section_result(section, reply)])
    /\ rw_progress' = Append(rw_progress, progress_value(rw_step))
    /\ rw_step' = rw_step + 1
    /\ rw_replies' = rw_replies \cup {reply}
    /\ UNCHANGED <<rw_convs, rw_pc, rw_clusters, rw_report>>
    /\ UNCHANGED <<vo_vars, cm_vars, vi_vars, ep_vars, le_vars, fn_vars, rg_vars, bq_vars, dl_vars>>

\* The conclusion: the update, then _write_conclusion, which raises before
\* its call of the model or writes the section; then the last update and
\* the report.
RwWriteConclusion(reply) ==
    /\ rw_pc = "writing"
    /\ Len(rw_sections) = Len(Sections) - 1
    /\ IF conclusion_context_raises(rw_sections[2].result, rw_sections[3].result)
       THEN /\ rw_progress' = Append(rw_progress, progress_value(rw_step))
            /\ rw_pc' = "raised"
            /\ UNCHANGED <<rw_sections, rw_step, rw_replies, rw_report>>
       ELSE /\ rw_sections' = Append(rw_sections,
                                     [section |-> "conclusion",
                                      result |-> section_result("conclusion", reply)])
            /\ rw_step' = rw_step + 1
            /\ rw_progress' = rw_progress \o <<progress_value(rw_step),
                                               progress_complete(rw_convs)>>
            /\ rw_replies' = rw_replies \cup {reply}
            /\ rw_report' = Range(Sections) \cup {"cluster_reports", "metadata"}
            /\ rw_pc' = "returned"
    /\ UNCHANGED <<rw_convs, rw_clusters>>
    /\ UNCHANGED <<vo_vars, cm_vars, vi_vars, ep_vars, le_vars, fn_vars, rg_vars, bq_vars, dl_vars>>

(***************************************************************************)
(* The nested legacy format from the evaluations of a run to the           *)
(* conversations of the stored report.  A name (cluster, sub_cluster,      *)
(* parameter_name) is a sequence of tokens; the token ">" stands for the   *)
(* text " > ", which _flatten_evaluated_data puts between the names.  The  *)
(* nested dict is kept as the triples of its entries in the order the      *)
(* three nested loops meet them, and the entry of each triple.             *)
(***************************************************************************)
\* The most evaluations of a run.
MaxLfEvals == 2

LfNames == {<<"a">>, <<"a", ">", "a">>}

LfEvaluations ==
    [cluster : LfNames, sub_cluster : LfNames, parameter_name : LfNames,
     assigned_score : {10, 45}]

\* The agent evaluations of a run: agent_id is the position in the list.
LfRuns == SeqUpTo(LfEvaluations, MaxLfEvals)

TripleOf(evaluation) ==
    <<evaluation.cluster, evaluation.sub_cluster, evaluation.parameter_name>>

\* The distinct values of a sequence, in the order they are first met: the
\* key order of a dict filled in that order.
RECURSIVE KeysInOrder(_)
KeysInOrder(seq) ==
    IF seq = <<>> THEN <<>>
    ELSE LET before == KeysInOrder(SubSeq(seq, 1, Len(seq) - 1))
         IN IF seq[Len(seq)] \in Range(before) THEN before
            ELSE Append(before, seq[Len(seq)])

\* The elements of a sequence that satisfy a test given as a set.
RECURSIVE Select(_, _)
Select(seq, keep) ==
    IF seq = <<>> THEN <<>>
    ELSE IF Head(seq) \in keep THEN <<Head(seq)>> \o Select(Tail(seq), keep)
    ELSE Select(Tail(seq), keep)

\* The triples of a nested dict in the order of
\* "for cluster ...: for parameter ...: for sub_parameter ...".
NestedOrder(triples) ==
    LET clusters == KeysInOrder([i \in 1..Len(triples) |-> triples[i][1]])
        OfCluster(c) == Select(triples, {t \in Range(triples) : t[1] = c})
        parameters(c) == KeysInOrder([i \in 1..Len(OfCluster(c)) |-> OfCluster(c)[i][2]])
        OfParameter(c, p) ==
            KeysInOrder(Select(triples, {t \in Range(triples) : t[1] = c /\ t[2] = p}))
    IN Concat([i \in 1..Len(clusters) |->
           Concat([j \in 1..Len(parameters(clusters[i])) |->
               OfParameter(clusters[i], parameters(clusters[i])[j])])])

\* _convert_evaluations_to_legacy_format with its three levels:
\* evaluated_data[cluster][sub_cluster][parameter_name] = {...}; a later
\* evaluation with the same triple replaces the entry.
convert_evaluations_nested(evaluations) ==
    LET triples == [i \in 1..Len(evaluations) |-> TripleOf(evaluations[i])]
        Last(t) == CHOOSE i \in 1..Len(evaluations) :
                       /\ triples[i] = t
                       /\ \A k \in 1..Len(evaluations) : triples[k] = t => k <= i
    IN [order |-> NestedOrder(triples),
        at |-> [t \in Range(triples) |->
                   [assignedScore |-> evaluations[Last(t)].assigned_score,
                    agent_id |-> Last(t)]]]

\* key = f"{cluster} > {parameter} > {sub_parameter}"
FlatKey(t) == t[1] \o <<">">> \o t[2] \o <<">">> \o t[3]

\* _flatten_evaluated_data: the dict from key to entry; an entry met later
\* under the same key replaces the earlier one.
flatten_evaluated_data(evaluated_data) ==
    LET keys == {FlatKey(t) : t \in Range(evaluated_data.order)}
        Last(k) == CHOOSE i \in 1..Len(evaluated_data.order) :
                       /\ FlatKey(evaluated_data.order[i]) = k
                       /\ \A n \in 1..Len(evaluated_data.order) :
                             FlatKey(evaluated_data.order[n]) = k => n <= i
    IN [k \in keys |-> evaluated_data.at[evaluated_data.order[Last(k)]]]

\* save_validation_report: the part of the report document that holds the
\* evaluations, and total_parameters of its detailed analysis.
report_document(evaluated_data) ==
    [raw_validation_result |-> [evaluated_data |-> evaluated_data],
     total_parameters |-> Cardinality(DOMAIN flatten_evaluated_data(evaluated_data))]

\* AgentDataProcessor on a report document: extract_all_agent_conversations
\* over raw_validation_result.evaluated_data; score = float(score) if score
\* else 0.
extract_nested_conversations(report) ==
    LET evaluated_data == report.raw_validation_result.evaluated_data
    IN [i \in 1..Len(evaluated_data.order) |->
           LET t == evaluated_data.order[i]
               evaluation == evaluated_data.at[t]
           IN [cluster |-> t[1], parameter |-> t[2], sub_parameter |-> t[3],
               score |-> IF evaluation.assignedScore # 0
                         THEN evaluation.assignedScore ELSE 0,
               agent_id |-> evaluation.agent_id]]

NoStoredReport ==
    [report |-> report_document(convert_evaluations_nested(<<>>)),
     conversations |-> <<>>, total_agents |-> 0]

\* The run's evaluations are converted and the report is stored.
LfConvertAndSave ==
    /\ "stored" \notin fn_pc
    /\ fn_out' = [fn_out EXCEPT !.report = report_document(convert_evaluations_nested(fn_in))]
    /\ fn_pc' = fn_pc \cup {"stored"}
    /\ UNCHANGED fn_in
    /\ UNCHANGED <<vo_vars, cm_vars, vi_vars, ep_vars, le_vars, rg_vars, bq_vars, dl_vars, rw_vars>>

\* process_complete_report_data on the stored report: the conversations and
\* metadata.total_agents.
LfProcessReport ==
    /\ "stored" \in fn_pc
    /\ "processed" \notin fn_pc
    /\ LET conversations == extract_nested_conversations(fn_out.report)
       IN fn_out' = [fn_out EXCEPT !.conversations = conversations,
                                   !.total_agents = Len(conversations)]
    /\ fn_pc' = fn_pc \cup {"processed"}
    /\ UNCHANGED fn_in
    /\ UNCHANGED <<vo_vars, cm_vars, vi_vars, ep_vars, le_vars, rg_vars, bq_vars, dl_vars, rw_vars>>

(***************************************************************************)
(* The performance areas and next steps of the detailed report data        *)
(* (database_manager.py).  cluster_scores is given as its items in dict    *)
(* order, the clusters being numbered; a score is in units of 1/Scale.     *)
(***************************************************************************)
\* The most clusters of cluster_scores.
MaxAreaClusters == 2

\* The cluster scores classified: the scale's ends, and the values at and
\* next to the two thresholds.
AreaScores ==
    {Tenths(10).v, Tenths(25).v - 1, Tenths(25).v, Tenths(25).v + 1,
     Tenths(40).v - 1, Tenths(40).v, Tenths(40).v + 1, Tenths(50).v}

ValidationOutcomes == {"EXCELLENT", "GOOD", "MODERATE", "WEAK"}

AreaInputs ==
    {[cluster_scores |-> [c \in 1..n |-> [cluster |-> c, score |-> s[c]]],
      validation_outcome |-> o] :
        n \in 0..MaxAreaClusters, s \in [1..MaxAreaClusters -> AreaScores],
        o \in ValidationOutcomes}

\* _identify_performance_areas
identify_performance_areas(cluster_scores) ==
    [good_areas |-> Select(cluster_scores,
                       {x \in Range(cluster_scores) : x.score >= Tenths(40).v}),
     bad_areas |-> Select(cluster_scores,
                      {x \in Range(cluster_scores) :
                          ~(x.score >= Tenths(40).v) /\ x.score <= Tenths(25).v})]

\* Mutant of identify_neutral_areas: the lower bound is inclusive.
identify_neutral_areas_inclusive(cluster_scores) ==
    Select(cluster_scores,
           {x \in Range(cluster_scores) :
               Tenths(25).v <= x.score /\ x.score < Tenths(40).v})

\* _identify_neutral_areas
identify_neutral_areas(cluster_scores) ==
    Select(cluster_scores,
           {x \in Range(cluster_scores) :
               Tenths(25).v < x.score /\ x.score < Tenths(40).v})

\* _generate_next_steps: the five steps of the outcome, then one "Urgent"
\* step per bad area.
generate_next_steps(validation_outcome, bad_areas) ==
    LET plan == IF validation_outcome \in {"EXCELLENT", "GOOD", "MODERATE"}
                THEN validation_outcome ELSE "REASSESS"
    IN [i \in 1..5 |-> [kind |-> "step", plan |-> plan, cluster |-> 0]]
       \o [i \in 1..Len(bad_areas) |->
              [kind |-> "Urgent", plan |-> plan, cluster |-> bad_areas[i].cluster]]

NoAreas == [good_areas |-> <<>>, bad_areas |-> <<>>, neutral_areas |-> <<>>,
            next_steps |-> <<>>]

\* _generate_detailed_report_data: good_areas, bad_areas
IdentifyPerformanceAreas ==
    /\ "performance_areas" \notin fn_pc
    /\ LET areas == identify_performance_areas(fn_in.cluster_scores)
       IN fn_out' = [fn_out EXCEPT !.good_areas = areas.good_areas,
                                   !.bad_areas = areas.bad_areas]
    /\ fn_pc' = fn_pc \cup {"performance_areas"}
    /\ UNCHANGED fn_in
    /\ UNCHANGED <<vo_vars, cm_vars, vi_vars, ep_vars, le_vars, rg_vars, bq_vars, dl_vars, rw_vars>>

\* _generate_detailed_report_data: "neutral_areas" and "next_steps" of the
\* report dict, built after the good and bad areas.
BuildDetailedReport ==
    /\ "performance_areas" \in fn_pc
    /\ "detailed_report" \notin fn_pc
    /\ fn_out' = [fn_out EXCEPT
                     !.neutral_areas = identify_neutral_areas(fn_in.cluster_scores),
                     !.next_steps = generate_next_steps(fn_in.validation_outcome,
                                                        fn_out.bad_areas)]
    /\ fn_pc' = fn_pc \cup {"detailed_report"}
    /\ UNCHANGED fn_in
    /\ UNCHANGED <<vo_vars, cm_vars, vi_vars, ep_vars, le_vars, rg_vars, bq_vars, dl_vars, rw_vars>>

(***************************************************************************)
(* Specifications: one per part.  The variables of the other parts are     *)
(* idle and never change.                                                  *)
(***************************************************************************)
\* validate_output applied to one raw output.
InitVO ==
    /\ vo_output \in Outputs
    /\ vo_pc = "call"
    /\ vo_result = None
    /\ cm_agents = <<>>
    /\ cm_pc = "idle"
    /\ cm_order = <<>>
    /\ cm_completed = <<>>
    /\ cm_agent = 0
    /\ cm_context = NoContext
    /\ vi_in = NoViInput
    /\ vi_pc = "idle"
    /\ vi_ret = NoResult
    /\ ep_req = NoRequest
    /\ ep_pc = "idle"
    /\ ep_resp = NoResponse
    /\ ep_calls = 0
    /\ ep_queue = <<>>
    /\ ep_saved = {}
    /\ le_global = 0
    /\ le_held = [r \in {} |-> 0]
    /\ le_pc = [r \in {} |-> "idle"]
    /\ le_last = [x \in {} |-> 0]
    /\ le_rec = [r \in {} |-> {}]
    /\ le_read = [r \in {} |-> 0]
    /\ fn_in = 0
    /\ fn_pc = {}
    /\ fn_out = <<>>
    /\ rg_db = "idle"
    /\ rg_report = "idle"
    /\ rg_cache = 0
    /\ rg_pc = [q \in {} |-> "idle"]
    /\ rg_resp = [q \in {} |-> 0]
    /\ rg_runs = 0
    /\ rg_done = 0
    /\ bq_queue = <<>>
    /\ bq_conns = {}
    /\ bq_recv = [c \in {} |-> <<>>]
    /\ bq_sent = 0
    /\ bq_audience = [x \in {} |-> {}]
    /\ dl_queue = <<>>
    /\ dl_result = {}
    /\ dl_thread = "idle"
    /\ dl_reported = 0
    /\ dl_stream = <<>>
    /\ dl_open = FALSE
    /\ dl_keepalives = 0
    /\ rw_convs = <<>>
    /\ rw_pc = "idle"
    /\ rw_step = 0
    /\ rw_progress = <<>>
    /\ rw_clusters = <<>>
    /\ rw_sections = <<>>
    /\ rw_replies = {}
    /\ rw_report = {}

NextVO ==
    \/ ValidateOutput

SpecVO == InitVO /\ [][NextVO]_vars

\* one run over a registry: the batches, then the agents batch by batch.
InitCM ==
    /\ vo_output = Output("other", NoFields, NoText)
    /\ vo_pc = "idle"
    /\ vo_result = None
    /\ cm_agents \in Registries
    /\ cm_pc = "start"
    /\ cm_order = <<>>
    /\ cm_completed = <<>>
    /\ cm_agent = 0
    /\ cm_context = NoContext
    /\ vi_in = NoViInput
    /\ vi_pc = "idle"
    /\ vi_ret = NoResult
    /\ ep_req = NoRequest
    /\ ep_pc = "idle"
    /\ ep_resp = NoResponse
    /\ ep_calls = 0
    /\ ep_queue = <<>>
    /\ ep_saved = {}
    /\ le_global = 0
    /\ le_held = [r \in {} |-> 0]
    /\ le_pc = [r \in {} |-> "idle"]
    /\ le_last = [x \in {} |-> 0]
    /\ le_rec = [r \in {} |-> {}]
    /\ le_read = [r \in {} |-> 0]
    /\ fn_in = 0
    /\ fn_pc = {}
    /\ fn_out = <<>>
    /\ rg_db = "idle"
    /\ rg_report = "idle"
    /\ rg_cache = 0
    /\ rg_pc = [q \in {} |-> "idle"]
    /\ rg_resp = [q \in {} |-> 0]
    /\ rg_runs = 0
    /\ rg_done = 0
    /\ bq_queue = <<>>
    /\ bq_conns = {}
    /\ bq_recv = [c \in {} |-> <<>>]
    /\ bq_sent = 0
    /\ bq_audience = [x \in {} |-> {}]
    /\ dl_queue = <<>>
    /\ dl_result = {}
    /\ dl_thread = "idle"
    /\ dl_reported = 0
    /\ dl_stream = <<>>
    /\ dl_open = FALSE
    /\ dl_keepalives = 0
    /\ rw_convs = <<>>
    /\ rw_pc = "idle"
    /\ rw_step = 0
    /\ rw_progress = <<>>
    /\ rw_clusters = <<>>
    /\ rw_sections = <<>>
    /\ rw_replies = {}
    /\ rw_report = {}

NextCM ==
    \/ GetExecutionOrder
    \/ \E a \in AgentIds(cm_agents) : EvaluateAgent(a)
    \/ FinishRun

SpecCM == InitCM /\ [][NextCM]_vars

\* resolve_dependencies applied to one registry and one set of completed evaluations.
InitRD ==
    /\ vo_output = Output("other", NoFields, NoText)
    /\ vo_pc = "idle"
    /\ vo_result = None
    /\ cm_agents \in MatchRegistries
    /\ cm_pc = "resolve"
    /\ cm_order = <<>>
    /\ cm_completed \in CompletedChoices
    /\ cm_agent = 0
    /\ cm_context = NoContext
    /\ vi_in = NoViInput
    /\ vi_pc = "idle"
    /\ vi_ret = NoResult
    /\ ep_req = NoRequest
    /\ ep_pc = "idle"
    /\ ep_resp = NoResponse
    /\ ep_calls = 0
    /\ ep_queue = <<>>
    /\ ep_saved = {}
    /\ le_global = 0
    /\ le_held = [r \in {} |-> 0]
    /\ le_pc = [r \in {} |-> "idle"]
    /\ le_last = [x \in {} |-> 0]
    /\ le_rec = [r \in {} |-> {}]
    /\ le_read = [r \in {} |-> 0]
    /\ fn_in = 0
    /\ fn_pc = {}
    /\ fn_out = <<>>
    /\ rg_db = "idle"
    /\ rg_report = "idle"
    /\ rg_cache = 0
    /\ rg_pc = [q \in {} |-> "idle"]
    /\ rg_resp = [q \in {} |-> 0]
    /\ rg_runs = 0
    /\ rg_done = 0
    /\ bq_queue = <<>>
    /\ bq_conns = {}
    /\ bq_recv = [c \in {} |-> <<>>]
    /\ bq_sent = 0
    /\ bq_audience = [x \in {} |-> {}]
    /\ dl_queue = <<>>
    /\ dl_result = {}
    /\ dl_thread = "idle"
    /\ dl_reported = 0
    /\ dl_stream = <<>>
    /\ dl_open = FALSE
    /\ dl_keepalives = 0
    /\ rw_convs = <<>>
    /\ rw_pc = "idle"
    /\ rw_step = 0
    /\ rw_progress = <<>>
    /\ rw_clusters = <<>>
    /\ rw_sections = <<>>
    /\ rw_replies = {}
    /\ rw_report = {}

NextRD ==
    \/ ResolveDependencies

SpecRD == InitRD /\ [][NextRD]_vars

\* one call of validate_idea, or of the validator's method.
InitVI ==
    /\ vo_output = Output("other", NoFields, NoText)
    /\ vo_pc = "idle"
    /\ vo_result = None
    /\ cm_agents = <<>>
    /\ cm_pc = "idle"
    /\ cm_order = <<>>
    /\ cm_completed = <<>>
    /\ cm_agent = 0
    /\ cm_context = NoContext
    /\ vi_in \in ViInputs
    /\ vi_pc = "call"
    /\ vi_ret = NoResult
    /\ ep_req = NoRequest
    /\ ep_pc = "idle"
    /\ ep_resp = NoResponse
    /\ ep_calls = 0
    /\ ep_queue = <<>>
    /\ ep_saved = {}
    /\ le_global = 0
    /\ le_held = [r \in {} |-> 0]
    /\ le_pc = [r \in {} |-> "idle"]
    /\ le_last = [x \in {} |-> 0]
    /\ le_rec = [r \in {} |-> {}]
    /\ le_read = [r \in {} |-> 0]
    /\ fn_in = 0
    /\ fn_pc = {}
    /\ fn_out = <<>>
    /\ rg_db = "idle"
    /\ rg_report = "idle"
    /\ rg_cache = 0
    /\ rg_pc = [q \in {} |-> "idle"]
    /\ rg_resp = [q \in {} |-> 0]
    /\ rg_runs = 0
    /\ rg_done = 0
    /\ bq_queue = <<>>
    /\ bq_conns = {}
    /\ bq_recv = [c \in {} |-> <<>>]
    /\ bq_sent = 0
    /\ bq_audience = [x \in {} |-> {}]
    /\ dl_queue = <<>>
    /\ dl_result = {}
    /\ dl_thread = "idle"
    /\ dl_reported = 0
    /\ dl_stream = <<>>
    /\ dl_open = FALSE
    /\ dl_keepalives = 0
    /\ rw_convs = <<>>
    /\ rw_pc = "idle"
    /\ rw_step = 0
    /\ rw_progress = <<>>
    /\ rw_clusters = <<>>
    /\ rw_sections = <<>>
    /\ rw_replies = {}
    /\ rw_report = {}

NextVI ==
    \/ CallValidateIdea
    \/ CallValidatorValidateIdea

SpecVI == InitVI /\ [][NextVI]_vars

\* one request to POST /api/validate-idea.
InitEP ==
    /\ vo_output = Output("other", NoFields, NoText)
    /\ vo_pc = "idle"
    /\ vo_result = None
    /\ cm_agents = <<>>
    /\ cm_pc = "idle"
    /\ cm_order = <<>>
    /\ cm_completed = <<>>
    /\ cm_agent = 0
    /\ cm_context = NoContext
    /\ vi_in = NoViInput
    /\ vi_pc = "idle"
    /\ vi_ret = NoResult
    /\ ep_req \in Requests
    /\ ep_pc = "received"
    /\ ep_resp = NoResponse
    /\ ep_calls = 0
    /\ ep_queue = <<>>
    /\ ep_saved = {}
    /\ le_global = 0
    /\ le_held = [r \in {} |-> 0]
    /\ le_pc = [r \in {} |-> "idle"]
    /\ le_last = [x \in {} |-> 0]
    /\ le_rec = [r \in {} |-> {}]
    /\ le_read = [r \in {} |-> 0]
    /\ fn_in = 0
    /\ fn_pc = {}
    /\ fn_out = <<>>
    /\ rg_db = "idle"
    /\ rg_report = "idle"
    /\ rg_cache = 0
    /\ rg_pc = [q \in {} |-> "idle"]
    /\ rg_resp = [q \in {} |-> 0]
    /\ rg_runs = 0
    /\ rg_done = 0
    /\ bq_queue = <<>>
    /\ bq_conns = {}
    /\ bq_recv = [c \in {} |-> <<>>]
    /\ bq_sent = 0
    /\ bq_audience = [x \in {} |-> {}]
    /\ dl_queue = <<>>
    /\ dl_result = {}
    /\ dl_thread = "idle"
    /\ dl_reported = 0
    /\ dl_stream = <<>>
    /\ dl_open = FALSE
    /\ dl_keepalives = 0
    /\ rw_convs = <<>>
    /\ rw_pc = "idle"
    /\ rw_step = 0
    /\ rw_progress = <<>>
    /\ rw_clusters = <<>>
    /\ rw_sections = <<>>
    /\ rw_replies = {}
    /\ rw_report = {}

NextEP ==
    \/ EpCheckRequest
    \/ \E in \in EpViInputs : EpValidate(in)
    \/ \E db \in DbStates : EpSaveAndRespond(db)

SpecEP == InitEP /\ [][NextEP]_vars

\* concurrent runs on the process-wide validator; the validator is set when
\* the server was started through its main block, None otherwise.
InitLE ==
    /\ vo_output = Output("other", NoFields, NoText)
    /\ vo_pc = "idle"
    /\ vo_result = None
    /\ cm_agents = <<>>
    /\ cm_pc = "idle"
    /\ cm_order = <<>>
    /\ cm_completed = <<>>
    /\ cm_agent = 0
    /\ cm_context = NoContext
    /\ vi_in = NoViInput
    /\ vi_pc = "idle"
    /\ vi_ret = NoResult
    /\ ep_req = NoRequest
    /\ ep_pc = "idle"
    /\ ep_resp = NoResponse
    /\ ep_calls = 0
    /\ ep_queue = <<>>
    /\ ep_saved = {}
    /\ le_global \in {0, StartupInstance}
    /\ le_held = [r \in Runs |-> 0]
    /\ le_pc = [r \in Runs |-> "start"]
    /\ le_last = [x \in Instances \X RecAgents |-> 0]
    /\ le_rec = [r \in Runs |-> {}]
    /\ le_read = [r \in Runs |-> 0]
    /\ fn_in = 0
    /\ fn_pc = {}
    /\ fn_out = <<>>
    /\ rg_db = "idle"
    /\ rg_report = "idle"
    /\ rg_cache = 0
    /\ rg_pc = [q \in {} |-> "idle"]
    /\ rg_resp = [q \in {} |-> 0]
    /\ rg_runs = 0
    /\ rg_done = 0
    /\ bq_queue = <<>>
    /\ bq_conns = {}
    /\ bq_recv = [c \in {} |-> <<>>]
    /\ bq_sent = 0
    /\ bq_audience = [x \in {} |-> {}]
    /\ dl_queue = <<>>
    /\ dl_result = {}
    /\ dl_thread = "idle"
    /\ dl_reported = 0
    /\ dl_stream = <<>>
    /\ dl_open = FALSE
    /\ dl_keepalives = 0
    /\ rw_convs = <<>>
    /\ rw_pc = "idle"
    /\ rw_step = 0
    /\ rw_progress = <<>>
    /\ rw_clusters = <<>>
    /\ rw_sections = <<>>
    /\ rw_replies = {}
    /\ rw_report = {}

NextLE ==
    \/ \E r \in Runs : LeCheckGlobal(r)
    \/ \E r \in Runs : LeConstruct(r)
    \/ \E r \in Runs : LeReturn(r)
    \/ \E r \in Runs, a \in RecAgents : LeRecord(r, a)
    \/ \E r \in Runs, a \in RecAgents : LeRead(r, a)
    \/ \E r \in Runs : LeFinish(r)

SpecLE == InitLE /\ [][NextLE]_vars

\* one request to POST /api/validate-idea or to POST /api/validate-pitch-deck.
InitST ==
    /\ vo_output = Output("other", NoFields, NoText)
    /\ vo_pc = "idle"
    /\ vo_result = None
    /\ cm_agents = <<>>
    /\ cm_pc = "idle"
    /\ cm_order = <<>>
    /\ cm_completed = <<>>
    /\ cm_agent = 0
    /\ cm_context = NoContext
    /\ vi_in = NoViInput
    /\ vi_pc = "idle"
    /\ vi_ret = NoResult
    /\ \/ ep_pc = "received" /\ ep_req \in StorageRequests
       \/ ep_pc = "pitch_received" /\ ep_req \in PitchRequests
    /\ ep_resp = NoResponse
    /\ ep_calls = 0
    /\ ep_queue = <<>>
    /\ ep_saved = {}
    /\ le_global = 0
    /\ le_held = [r \in {} |-> 0]
    /\ le_pc = [r \in {} |-> "idle"]
    /\ le_last = [x \in {} |-> 0]
    /\ le_rec = [r \in {} |-> {}]
    /\ le_read = [r \in {} |-> 0]
    /\ fn_in = 0
    /\ fn_pc = {}
    /\ fn_out = <<>>
    /\ rg_db = "idle"
    /\ rg_report = "idle"
    /\ rg_cache = 0
    /\ rg_pc = [q \in {} |-> "idle"]
    /\ rg_resp = [q \in {} |-> 0]
    /\ rg_runs = 0
    /\ rg_done = 0
    /\ bq_queue = <<>>
    /\ bq_conns = {}
    /\ bq_recv = [c \in {} |-> <<>>]
    /\ bq_sent = 0
    /\ bq_audience = [x \in {} |-> {}]
    /\ dl_queue = <<>>
    /\ dl_result = {}
    /\ dl_thread = "idle"
    /\ dl_reported = 0
    /\ dl_stream = <<>>
    /\ dl_open = FALSE
    /\ dl_keepalives = 0
    /\ rw_convs = <<>>
    /\ rw_pc = "idle"
    /\ rw_step = 0
    /\ rw_progress = <<>>
    /\ rw_clusters = <<>>
    /\ rw_sections = <<>>
    /\ rw_replies = {}
    /\ rw_report = {}

NextST ==
    \/ EpCheckRequest
    \/ \E in \in EpViInputs : EpValidate(in)
    \/ \E db \in DbStates : EpSaveAndRespond(db)
    \/ PdCheckRequest
    \/ \E in \in PdViInputs : PdValidate(in)
    \/ \E db \in DbStates : PdSaveAndRespond(db)

SpecST == InitST /\ [][NextST]_vars

\* the two classifications applied to one score.
InitSC ==
    /\ vo_output = Output("other", NoFields, NoText)
    /\ vo_pc = "idle"
    /\ vo_result = None
    /\ cm_agents = <<>>
    /\ cm_pc = "idle"
    /\ cm_order = <<>>
    /\ cm_completed = <<>>
    /\ cm_agent = 0
    /\ cm_context = NoContext
    /\ vi_in = NoViInput
    /\ vi_pc = "idle"
    /\ vi_ret = NoResult
    /\ ep_req = NoRequest
    /\ ep_pc = "idle"
    /\ ep_resp = NoResponse
    /\ ep_calls = 0
    /\ ep_queue = <<>>
    /\ ep_saved = {}
    /\ le_global = 0
    /\ le_held = [r \in {} |-> 0]
    /\ le_pc = [r \in {} |-> "idle"]
    /\ le_last = [x \in {} |-> 0]
    /\ le_rec = [r \in {} |-> {}]
    /\ le_read = [r \in {} |-> 0]
    /\ fn_in \in ClassifiedScores
    /\ fn_pc = {}
    /\ fn_out = NoClasses
    /\ rg_db = "idle"
    /\ rg_report = "idle"
    /\ rg_cache = 0
    /\ rg_pc = [q \in {} |-> "idle"]
    /\ rg_resp = [q \in {} |-> 0]
    /\ rg_runs = 0
    /\ rg_done = 0
    /\ bq_queue = <<>>
    /\ bq_conns = {}
    /\ bq_recv = [c \in {} |-> <<>>]
    /\ bq_sent = 0
    /\ bq_audience = [x \in {} |-> {}]
    /\ dl_queue = <<>>
    /\ dl_result = {}
    /\ dl_thread = "idle"
    /\ dl_reported = 0
    /\ dl_stream = <<>>
    /\ dl_open = FALSE
    /\ dl_keepalives = 0
    /\ rw_convs = <<>>
    /\ rw_pc = "idle"
    /\ rw_step = 0
    /\ rw_progress = <<>>
    /\ rw_clusters = <<>>
    /\ rw_sections = <<>>
    /\ rw_replies = {}
    /\ rw_report = {}

NextSC ==
    \/ ClusterStatusClass
    \/ AssessOverallRiskLevel

SpecSC == InitSC /\ [][NextSC]_vars

\* the cluster scores of one report.
InitCS ==
    /\ vo_output = Output("other", NoFields, NoText)
    /\ vo_pc = "idle"
    /\ vo_result = None
    /\ cm_agents = <<>>
    /\ cm_pc = "idle"
    /\ cm_order = <<>>
    /\ cm_completed = <<>>
    /\ cm_agent = 0
    /\ cm_context = NoContext
    /\ vi_in = NoViInput
    /\ vi_pc = "idle"
    /\ vi_ret = NoResult
    /\ ep_req = NoRequest
    /\ ep_pc = "idle"
    /\ ep_resp = NoResponse
    /\ ep_calls = 0
    /\ ep_queue = <<>>
    /\ ep_saved = {}
    /\ le_global = 0
    /\ le_held = [r \in {} |-> 0]
    /\ le_pc = [r \in {} |-> "idle"]
    /\ le_last = [x \in {} |-> 0]
    /\ le_rec = [r \in {} |-> {}]
    /\ le_read = [r \in {} |-> 0]
    /\ fn_in \in EvaluatedData
    /\ fn_pc = {}
    /\ fn_out = NoClusterScores
    /\ rg_db = "idle"
    /\ rg_report = "idle"
    /\ rg_cache = 0
    /\ rg_pc = [q \in {} |-> "idle"]
    /\ rg_resp = [q \in {} |-> 0]
    /\ rg_runs = 0
    /\ rg_done = 0
    /\ bq_queue = <<>>
    /\ bq_conns = {}
    /\ bq_recv = [c \in {} |-> <<>>]
    /\ bq_sent = 0
    /\ bq_audience = [x \in {} |-> {}]
    /\ dl_queue = <<>>
    /\ dl_result = {}
    /\ dl_thread = "idle"
    /\ dl_reported = 0
    /\ dl_stream = <<>>
    /\ dl_open = FALSE
    /\ dl_keepalives = 0
    /\ rw_convs = <<>>
    /\ rw_pc = "idle"
    /\ rw_step = 0
    /\ rw_progress = <<>>
    /\ rw_clusters = <<>>
    /\ rw_sections = <<>>
    /\ rw_replies = {}
    /\ rw_report = {}

NextCS ==
    \/ CalculateClusterScores
    \/ \E c \in ClusterNames : GenerateClusterSummary(c)

SpecCS == InitCS /\ [][NextCS]_vars

\* one run with the custom cluster weights of the caller.
InitCW ==
    /\ vo_output = Output("other", NoFields, NoText)
    /\ vo_pc = "idle"
    /\ vo_result = None
    /\ cm_agents = <<>>
    /\ cm_pc = "idle"
    /\ cm_order = <<>>
    /\ cm_completed = <<>>
    /\ cm_agent = 0
    /\ cm_context = NoContext
    /\ vi_in = NoViInput
    /\ vi_pc = "idle"
    /\ vi_ret = NoResult
    /\ ep_req = NoRequest
    /\ ep_pc = "idle"
    /\ ep_resp = NoResponse
    /\ ep_calls = 0
    /\ ep_queue = <<>>
    /\ ep_saved = {}
    /\ le_global = 0
    /\ le_held = [r \in {} |-> 0]
    /\ le_pc = [r \in {} |-> "idle"]
    /\ le_last = [x \in {} |-> 0]
    /\ le_rec = [r \in {} |-> {}]
    /\ le_read = [r \in {} |-> 0]
    /\ fn_in \in CustomWeights
    /\ fn_pc = {}
    /\ fn_out = NoAggregation
    /\ rg_db = "idle"
    /\ rg_report = "idle"
    /\ rg_cache = 0
    /\ rg_pc = [q \in {} |-> "idle"]
    /\ rg_resp = [q \in {} |-> 0]
    /\ rg_runs = 0
    /\ rg_done = 0
    /\ bq_queue = <<>>
    /\ bq_conns = {}
    /\ bq_recv = [c \in {} |-> <<>>]
    /\ bq_sent = 0
    /\ bq_audience = [x \in {} |-> {}]
    /\ dl_queue = <<>>
    /\ dl_result = {}
    /\ dl_thread = "idle"
    /\ dl_reported = 0
    /\ dl_stream = <<>>
    /\ dl_open = FALSE
    /\ dl_keepalives = 0
    /\ rw_convs = <<>>
    /\ rw_pc = "idle"
    /\ rw_step = 0
    /\ rw_progress = <<>>
    /\ rw_clusters = <<>>
    /\ rw_sections = <<>>
    /\ rw_replies = {}
    /\ rw_report = {}

NextCW ==
    \/ ConvertWeights
    \/ AggregateWithWeights

SpecCW == InitCW /\ [][NextCW]_vars

\* the result and the report data of one run, from its evaluations.
InitEV ==
    /\ vo_output = Output("other", NoFields, NoText)
    /\ vo_pc = "idle"
    /\ vo_result = None
    /\ cm_agents = <<>>
    /\ cm_pc = "idle"
    /\ cm_order = <<>>
    /\ cm_completed = <<>>
    /\ cm_agent = 0
    /\ cm_context = NoContext
    /\ vi_in = NoViInput
    /\ vi_pc = "idle"
    /\ vi_ret = NoResult
    /\ ep_req = NoRequest
    /\ ep_pc = "idle"
    /\ ep_resp = NoResponse
    /\ ep_calls = 0
    /\ ep_queue = <<>>
    /\ ep_saved = {}
    /\ le_global = 0
    /\ le_held = [r \in {} |-> 0]
    /\ le_pc = [r \in {} |-> "idle"]
    /\ le_last = [x \in {} |-> 0]
    /\ le_rec = [r \in {} |-> {}]
    /\ le_read = [r \in {} |-> 0]
    /\ fn_in \in EvaluatedData
    /\ fn_pc = {}
    /\ fn_out = NoValidation
    /\ rg_db = "idle"
    /\ rg_report = "idle"
    /\ rg_cache = 0
    /\ rg_pc = [q \in {} |-> "idle"]
    /\ rg_resp = [q \in {} |-> 0]
    /\ rg_runs = 0
    /\ rg_done = 0
    /\ bq_queue = <<>>
    /\ bq_conns = {}
    /\ bq_recv = [c \in {} |-> <<>>]
    /\ bq_sent = 0
    /\ bq_audience = [x \in {} |-> {}]
    /\ dl_queue = <<>>
    /\ dl_result = {}
    /\ dl_thread = "idle"
    /\ dl_reported = 0
    /\ dl_stream = <<>>
    /\ dl_open = FALSE
    /\ dl_keepalives = 0
    /\ rw_convs = <<>>
    /\ rw_pc = "idle"
    /\ rw_step = 0
    /\ rw_progress = <<>>
    /\ rw_clusters = <<>>
    /\ rw_sections = <<>>
    /\ rw_replies = {}
    /\ rw_report = {}

NextEV ==
    \/ \E consensus \in ConsensusLevels : Aggregate(consensus)
    \/ ConvertToLegacyFormat
    \/ ProcessReportData

SpecEV == InitEV /\ [][NextEV]_vars

\* requests to GET /api/report/<report_id>/generate for one report_id.
InitRG ==
    /\ vo_output = Output("other", NoFields, NoText)
    /\ vo_pc = "idle"
    /\ vo_result = None
    /\ cm_agents = <<>>
    /\ cm_pc = "idle"
    /\ cm_order = <<>>
    /\ cm_completed = <<>>
    /\ cm_agent = 0
    /\ cm_context = NoContext
    /\ vi_in = NoViInput
    /\ vi_pc = "idle"
    /\ vi_ret = NoResult
    /\ ep_req = NoRequest
    /\ ep_pc = "idle"
    /\ ep_resp = NoResponse
    /\ ep_calls = 0
    /\ ep_queue = <<>>
    /\ ep_saved = {}
    /\ le_global = 0
    /\ le_held = [r \in {} |-> 0]
    /\ le_pc = [r \in {} |-> "idle"]
    /\ le_last = [x \in {} |-> 0]
    /\ le_rec = [r \in {} |-> {}]
    /\ le_read = [r \in {} |-> 0]
    /\ fn_in = 0
    /\ fn_pc = {}
    /\ fn_out = <<>>
    /\ rg_db \in {"unreachable", "plain", "caching"}
    /\ rg_report \in {"missing", "no_conversations", "complete"}
    /\ rg_cache = 0
    /\ rg_pc = [q \in Requesters |-> "start"]
    /\ rg_resp = [q \in Requesters |-> RgNoResponse]
    /\ rg_runs = 0
    /\ rg_done = 0
    /\ bq_queue = <<>>
    /\ bq_conns = {}
    /\ bq_recv = [c \in {} |-> <<>>]
    /\ bq_sent = 0
    /\ bq_audience = [x \in {} |-> {}]
    /\ dl_queue = <<>>
    /\ dl_result = {}
    /\ dl_thread = "idle"
    /\ dl_reported = 0
    /\ dl_stream = <<>>
    /\ dl_open = FALSE
    /\ dl_keepalives = 0
    /\ rw_convs = <<>>
    /\ rw_pc = "idle"
    /\ rw_step = 0
    /\ rw_progress = <<>>
    /\ rw_clusters = <<>>
    /\ rw_sections = <<>>
    /\ rw_replies = {}
    /\ rw_report = {}

NextRG ==
    \/ \E q \in Requesters : RgCheckCache(q)
    \/ \E q \in Requesters, raises \in BOOLEAN : RgWriteReport(q, raises)
    \/ \E q \in Requesters, succeeds \in BOOLEAN : RgSaveAndRespond(q, succeeds)

SpecRG == InitRG /\ [][NextRG]_vars

\* clients of /api/agent-stream and the messages broadcast to them.
InitBQ ==
    /\ vo_output = Output("other", NoFields, NoText)
    /\ vo_pc = "idle"
    /\ vo_result = None
    /\ cm_agents = <<>>
    /\ cm_pc = "idle"
    /\ cm_order = <<>>
    /\ cm_completed = <<>>
    /\ cm_agent = 0
    /\ cm_context = NoContext
    /\ vi_in = NoViInput
    /\ vi_pc = "idle"
    /\ vi_ret = NoResult
    /\ ep_req = NoRequest
    /\ ep_pc = "idle"
    /\ ep_resp = NoResponse
    /\ ep_calls = 0
    /\ ep_queue = <<>>
    /\ ep_saved = {}
    /\ le_global = 0
    /\ le_held = [r \in {} |-> 0]
    /\ le_pc = [r \in {} |-> "idle"]
    /\ le_last = [x \in {} |-> 0]
    /\ le_rec = [r \in {} |-> {}]
    /\ le_read = [r \in {} |-> 0]
    /\ fn_in = 0
    /\ fn_pc = {}
    /\ fn_out = <<>>
    /\ rg_db = "idle"
    /\ rg_report = "idle"
    /\ rg_cache = 0
    /\ rg_pc = [q \in {} |-> "idle"]
    /\ rg_resp = [q \in {} |-> 0]
    /\ rg_runs = 0
    /\ rg_done = 0
    /\ bq_queue = <<>>
    /\ bq_conns = {}
    /\ bq_recv = [c \in Clients |-> <<>>]
    /\ bq_sent = 0
    /\ bq_audience = [m \in {} |-> {}]
    /\ dl_queue = <<>>
    /\ dl_result = {}
    /\ dl_thread = "idle"
    /\ dl_reported = 0
    /\ dl_stream = <<>>
    /\ dl_open = FALSE
    /\ dl_keepalives = 0
    /\ rw_convs = <<>>
    /\ rw_pc = "idle"
    /\ rw_step = 0
    /\ rw_progress = <<>>
    /\ rw_clusters = <<>>
    /\ rw_sections = <<>>
    /\ rw_replies = {}
    /\ rw_report = {}

NextBQ ==
    \/ \E c \in Clients : BqConnect(c)
    \/ \E c \in Clients : BqDisconnect(c)
    \/ broadcast_agent_message
    \/ \E c \in Clients : event_stream(c)

SpecBQ == InitBQ /\ [][NextBQ]_vars

\* the strengths, weaknesses and recommendations of a report.
InitSW ==
    /\ vo_output = Output("other", NoFields, NoText)
    /\ vo_pc = "idle"
    /\ vo_result = None
    /\ cm_agents = <<>>
    /\ cm_pc = "idle"
    /\ cm_order = <<>>
    /\ cm_completed = <<>>
    /\ cm_agent = 0
    /\ cm_context = NoContext
    /\ vi_in = NoViInput
    /\ vi_pc = "idle"
    /\ vi_ret = NoResult
    /\ ep_req = NoRequest
    /\ ep_pc = "idle"
    /\ ep_resp = NoResponse
    /\ ep_calls = 0
    /\ ep_queue = <<>>
    /\ ep_saved = {}
    /\ le_global = 0
    /\ le_held = [r \in {} |-> 0]
    /\ le_pc = [r \in {} |-> "idle"]
    /\ le_last = [x \in {} |-> 0]
    /\ le_rec = [r \in {} |-> {}]
    /\ le_read = [r \in {} |-> 0]
    /\ fn_in \in ReportConversations
    /\ fn_pc = {}
    /\ fn_out = NoExtraction
    /\ rg_db = "idle"
    /\ rg_report = "idle"
    /\ rg_cache = 0
    /\ rg_pc = [q \in {} |-> "idle"]
    /\ rg_resp = [q \in {} |-> 0]
    /\ rg_runs = 0
    /\ rg_done = 0
    /\ bq_queue = <<>>
    /\ bq_conns = {}
    /\ bq_recv = [c \in {} |-> <<>>]
    /\ bq_sent = 0
    /\ bq_audience = [x \in {} |-> {}]
    /\ dl_queue = <<>>
    /\ dl_result = {}
    /\ dl_thread = "idle"
    /\ dl_reported = 0
    /\ dl_stream = <<>>
    /\ dl_open = FALSE
    /\ dl_keepalives = 0
    /\ rw_convs = <<>>
    /\ rw_pc = "idle"
    /\ rw_step = 0
    /\ rw_progress = <<>>
    /\ rw_clusters = <<>>
    /\ rw_sections = <<>>
    /\ rw_replies = {}
    /\ rw_report = {}

NextSW ==
    \/ ExtractStrengthsAndWeaknesses
    \/ ExtractRecommendations

SpecSW == InitSW /\ [][NextSW]_vars

\* one download of a stored report, from the start of the thread and of the stream.
InitDL ==
    /\ vo_output = Output("other", NoFields, NoText)
    /\ vo_pc = "idle"
    /\ vo_result = None
    /\ cm_agents = <<>>
    /\ cm_pc = "idle"
    /\ cm_order = <<>>
    /\ cm_completed = <<>>
    /\ cm_agent = 0
    /\ cm_context = NoContext
    /\ vi_in = NoViInput
    /\ vi_pc = "idle"
    /\ vi_ret = NoResult
    /\ ep_req = NoRequest
    /\ ep_pc = "idle"
    /\ ep_resp = NoResponse
    /\ ep_calls = 0
    /\ ep_queue = <<>>
    /\ ep_saved = {}
    /\ le_global = 0
    /\ le_held = [r \in {} |-> 0]
    /\ le_pc = [r \in {} |-> "idle"]
    /\ le_last = [x \in {} |-> 0]
    /\ le_rec = [r \in {} |-> {}]
    /\ le_read = [r \in {} |-> 0]
    /\ fn_in = 0
    /\ fn_pc = {}
    /\ fn_out = <<>>
    /\ rg_db = "idle"
    /\ rg_report = "idle"
    /\ rg_cache = 0
    /\ rg_pc = [q \in {} |-> "idle"]
    /\ rg_resp = [q \in {} |-> 0]
    /\ rg_runs = 0
    /\ rg_done = 0
    /\ bq_queue = <<>>
    /\ bq_conns = {}
    /\ bq_recv = [c \in {} |-> <<>>]
    /\ bq_sent = 0
    /\ bq_audience = [x \in {} |-> {}]
    /\ dl_queue = <<>>
    /\ dl_result = {}
    /\ dl_thread = "running"
    /\ dl_reported = 0
    /\ dl_stream = <<>>
    /\ dl_open = TRUE
    /\ dl_keepalives = 0
    /\ rw_convs = <<>>
    /\ rw_pc = "idle"
    /\ rw_step = 0
    /\ rw_progress = <<>>
    /\ rw_clusters = <<>>
    /\ rw_sections = <<>>
    /\ rw_replies = {}
    /\ rw_report = {}

NextDL ==
    \/ progress_callback
    \/ DlStoreResult
    \/ DlPutComplete
    \/ DlStoreError
    \/ DlPutError
    \/ DlStreamItem
    \/ DlStreamKeepalive

SpecDL == InitDL /\ [][NextDL]_vars

\* The same, with the loop of generate() going on while an item waits: the
\* response is a generator the server keeps iterating.
SpecDLFair == SpecDL /\ WF_vars(DlStreamItem)

\* one call of write_comprehensive_report with a progress callback.
InitRW ==
    /\ vo_output = Output("other", NoFields, NoText)
    /\ vo_pc = "idle"
    /\ vo_result = None
    /\ cm_agents = <<>>
    /\ cm_pc = "idle"
    /\ cm_order = <<>>
    /\ cm_completed = <<>>
    /\ cm_agent = 0
    /\ cm_context = NoContext
    /\ vi_in = NoViInput
    /\ vi_pc = "idle"
    /\ vi_ret = NoResult
    /\ ep_req = NoRequest
    /\ ep_pc = "idle"
    /\ ep_resp = NoResponse
    /\ ep_calls = 0
    /\ ep_queue = <<>>
    /\ ep_saved = {}
    /\ le_global = 0
    /\ le_held = [r \in {} |-> 0]
    /\ le_pc = [r \in {} |-> "idle"]
    /\ le_last = [x \in {} |-> 0]
    /\ le_rec = [r \in {} |-> {}]
    /\ le_read = [r \in {} |-> 0]
    /\ fn_in = 0
    /\ fn_pc = {}
    /\ fn_out = <<>>
    /\ rg_db = "idle"
    /\ rg_report = "idle"
    /\ rg_cache = 0
    /\ rg_pc = [q \in {} |-> "idle"]
    /\ rg_resp = [q \in {} |-> 0]
    /\ rg_runs = 0
    /\ rg_done = 0
    /\ bq_queue = <<>>
    /\ bq_conns = {}
    /\ bq_recv = [c \in {} |-> <<>>]
    /\ bq_sent = 0
    /\ bq_audience = [x \in {} |-> {}]
    /\ dl_queue = <<>>
    /\ dl_result = {}
    /\ dl_thread = "idle"
    /\ dl_reported = 0
    /\ dl_stream = <<>>
    /\ dl_open = FALSE
    /\ dl_keepalives = 0
    /\ rw_convs \in SeqUpTo([cluster : ClusterNames], MaxRwConvs)
    /\ rw_pc = "start"
    /\ rw_step = 0
    /\ rw_progress = <<>>
    /\ rw_clusters = <<>>
    /\ rw_sections = <<>>
    /\ rw_replies = {}
    /\ rw_report = {}

NextRW ==
    \/ RwGroupByCluster
    \/ \E reply \in Replies : RwWriteClusterReport(reply)
    \/ \E reply \in Replies : RwWriteSection(reply)
    \/ \E reply \in Replies : RwWriteConclusion(reply)

SpecRW == InitRW /\ [][NextRW]_vars

\* the evaluations of a run, converted, stored and read back.
InitLF ==
    /\ vo_output = Output("other", NoFields, NoText)
    /\ vo_pc = "idle"
    /\ vo_result = None
    /\ cm_agents = <<>>
    /\ cm_pc = "idle"
    /\ cm_order = <<>>
    /\ cm_completed = <<>>
    /\ cm_agent = 0
    /\ cm_context = NoContext
    /\ vi_in = NoViInput
    /\ vi_pc = "idle"
    /\ vi_ret = NoResult
    /\ ep_req = NoRequest
    /\ ep_pc = "idle"
    /\ ep_resp = NoResponse
    /\ ep_calls = 0
    /\ ep_queue = <<>>
    /\ ep_saved = {}
    /\ le_global = 0
    /\ le_held = [r \in {} |-> 0]
    /\ le_pc = [r \in {} |-> "idle"]
    /\ le_last = [x \in {} |-> 0]
    /\ le_rec = [r \in {} |-> {}]
    /\ le_read = [r \in {} |-> 0]
    /\ fn_in \in LfRuns
    /\ fn_pc = {}
    /\ fn_out = NoStoredReport
    /\ rg_db = "idle"
    /\ rg_report = "idle"
    /\ rg_cache = 0
    /\ rg_pc = [q \in {} |-> "idle"]
    /\ rg_resp = [q \in {} |-> 0]
    /\ rg_runs = 0
    /\ rg_done = 0
    /\ bq_queue = <<>>
    /\ bq_conns = {}
    /\ bq_recv = [c \in {} |-> <<>>]
    /\ bq_sent = 0
    /\ bq_audience = [x \in {} |-> {}]
    /\ dl_queue = <<>>
    /\ dl_result = {}
    /\ dl_thread = "idle"
    /\ dl_reported = 0
    /\ dl_stream = <<>>
    /\ dl_open = FALSE
    /\ dl_keepalives = 0
    /\ rw_convs = <<>>
    /\ rw_pc = "idle"
    /\ rw_step = 0
    /\ rw_progress = <<>>
    /\ rw_clusters = <<>>
    /\ rw_sections = <<>>
    /\ rw_replies = {}
    /\ rw_report = {}

NextLF ==
    \/ LfConvertAndSave
    \/ LfProcessReport

SpecLF == InitLF /\ [][NextLF]_vars

\* the performance areas of a report with given cluster scores.
InitPA ==
    /\ vo_output = Output("other", NoFields, NoText)
    /\ vo_pc = "idle"
    /\ vo_result = None
    /\ cm_agents = <<>>
    /\ cm_pc = "idle"
    /\ cm_order = <<>>
    /\ cm_completed = <<>>
    /\ cm_agent = 0
    /\ cm_context = NoContext
    /\ vi_in = NoViInput
    /\ vi_pc = "idle"
    /\ vi_ret = NoResult
    /\ ep_req = NoRequest
    /\ ep_pc = "idle"
    /\ ep_resp = NoResponse
    /\ ep_calls = 0
    /\ ep_queue = <<>>
    /\ ep_saved = {}
    /\ le_global = 0
    /\ le_held = [r \in {} |-> 0]
    /\ le_pc = [r \in {} |-> "idle"]
    /\ le_last = [x \in {} |-> 0]
    /\ le_rec = [r \in {} |-> {}]
    /\ le_read = [r \in {} |-> 0]
    /\ fn_in \in AreaInputs
    /\ fn_pc = {}
    /\ fn_out = NoAreas
    /\ rg_db = "idle"
    /\ rg_report = "idle"
    /\ rg_cache = 0
    /\ rg_pc = [q \in {} |-> "idle"]
    /\ rg_resp = [q \in {} |-> 0]
    /\ rg_runs = 0
    /\ rg_done = 0
    /\ bq_queue = <<>>
    /\ bq_conns = {}
    /\ bq_recv = [c \in {} |-> <<>>]
    /\ bq_sent = 0
    /\ bq_audience = [x \in {} |-> {}]
    /\ dl_queue = <<>>
    /\ dl_result = {}
    /\ dl_thread = "idle"
    /\ dl_reported = 0
    /\ dl_stream = <<>>
    /\ dl_open = FALSE
    /\ dl_keepalives = 0
    /\ rw_convs = <<>>
    /\ rw_pc = "idle"
    /\ rw_step = 0
    /\ rw_progress = <<>>
    /\ rw_clusters = <<>>
    /\ rw_sections = <<>>
    /\ rw_replies = {}
    /\ rw_report = {}

NextPA ==
    \/ IdentifyPerformanceAreas
    \/ BuildDetailedReport

SpecPA == InitPA /\ [][NextPA]_vars

(***************************************************************************)
(* Properties of validate_output (SpecVO).                                 *)
(***************************************************************************)
\* A finite float within [lo, hi] (in tenths).
InRange(x, lo, hi) == x.k = "fin" /\ Tenths(lo).v <= x.v /\ x.v <= Tenths(hi).v

\* The output carries no score: a mapping (given as such or as JSON) without
\* the key, a text without a number after the word "score", or a value that
\* is neither a mapping nor a string.
CarriesNoScore(output) ==
    \/ output.kind \in {"mapping", "str_json"} /\ output.fields.score.tag = "absent"
    \/ output.kind = "str_text" /\ score_match(output.text) = <<>>
    \/ output.kind = "other"

\* C1: every evaluation validate_output returns has its score within
\* [1.0, 5.0] and its confidence_level within [0.0, 1.0], and its score is 3.0
\* when the output carries no score.
C1_ScoreAndConfidenceInRange ==
    vo_pc = "returned" =>
        /\ InRange(vo_result.score, 10, 50)
        /\ InRange(vo_result.confidence_level, 0, 10)
        /\ CarriesNoScore(vo_output) => vo_result.score = Tenths(30)

\* C1 witness: a mapping with a score above 5.0 was returned clamped to 5.0.
C1_Witness ==
    /\ vo_pc = "returned"
    /\ vo_output.kind = "mapping"
    /\ vo_output.fields.score.tag = "num"
    /\ vo_output.fields.score.v > Tenths(50).v
    /\ vo_result.score = Tenths(50)

\* Malformed output: a value that is no mapping and no string, a string whose
\* braces do not hold valid JSON, or a mapping whose score is not a number
\* (a string that is no number, None, a list, or NaN).
Malformed(output) ==
    \/ output.kind \in {"other", "str_badjson"}
    \/ /\ output.kind \in {"mapping", "str_json"}
       /\ output.fields.score.tag \in {"badstr", "null", "list", "nan", "nanstr"}

\* C2: validate_output never raises, and for malformed output it returns the
\* fallback evaluation: score 3.0 and confidence_level 0.5.
C2_MalformedGivesFallback ==
    /\ vo_pc # "raised"
    /\ (vo_pc = "returned" /\ Malformed(vo_output)) =>
            /\ vo_result.score = Tenths(30)
            /\ vo_result.confidence_level = Tenths(5)

(***************************************************************************)
(* Properties of validate_idea (SpecVI).                                   *)
(***************************************************************************)
\* Something fails in the call: for the module-level function also the
\* construction of the validator and the conversion of the weights.
RunFails(in) == in.loop = "running" \/ in.run = "raises" \/ in.convert = "raises"

CallFails(in) ==
    in.validator = "raises" \/ in.weights \in {"badvalue", "notdict"} \/ RunFails(in)

\* C3: neither validate_idea nor the validator's validate_idea propagates an
\* exception; the dict returned has overall_score 3.0 and a non-null error
\* when something failed, and error None when nothing did.
C3_NeverPropagates ==
    /\ vi_pc # "raised"
    /\ vi_pc = "returned" =>
            IF CallFails(vi_in)
            THEN vi_ret.overall_score = Tenths(30).v /\ vi_ret.error.k = "str"
            ELSE vi_ret.error = NoError
    /\ vi_pc = "method_returned" =>
            IF RunFails(vi_in)
            THEN vi_ret.overall_score = Tenths(30).v /\ vi_ret.error.k = "str"
            ELSE vi_ret.error = NoError

\* C3 witness: only the conversion of the result failed, and validate_idea
\* returned a dict with an error.
C3_Witness ==
    /\ vi_pc = "returned"
    /\ vi_in.validator = "constructs" /\ vi_in.weights = "numeric"
    /\ vi_in.loop = "current" /\ vi_in.run = "ok" /\ vi_in.convert = "raises"
    /\ vi_ret.error.k = "str"
    /\ vi_ret.overall_score = Tenths(30).v

\* C4: every dict validate_idea returns has all twelve fields of the
\* successful result, on the failure paths too.
C4_SameFieldsOnEveryPath == vi_pc = "returned" => LegacyKeys \subseteq vi_ret.keys

\* C5: in every dict validate_idea returns, validation_outcome is one of
\* EXCELLENT, GOOD, MODERATE and WEAK.
C5_OutcomeIsCategorical ==
    vi_pc = "returned" =>
        vi_ret.validation_outcome \in {"EXCELLENT", "GOOD", "MODERATE", "WEAK"}

(***************************************************************************)
(* Properties of POST /api/validate-idea (SpecEP).                         *)
(***************************************************************************)
\* A required field is missing from the body or empty after trimming.
MissingOrEmpty(req) ==
    \/ req.body = "none"
    \/ \E f \in Range(RequiredFields) :
          \/ req.fields[f].tag = "missing"
          \/ req.fields[f].tag = "str" /\ Strip(req.fields[f].s) = <<>>

\* C6: a request with a required field missing or empty after trimming is
\* answered 400, and for it validate_idea is never called, nothing is
\* broadcast and no report is saved.
C6_RejectedBeforeAnyAgentRuns ==
    MissingOrEmpty(ep_req) =>
        /\ ep_calls = 0
        /\ ep_queue = <<>>
        /\ ep_saved = {}
        /\ ep_pc = "done" => ep_resp.status = 400


(***************************************************************************)
(* Properties of the execution order and of a run (SpecCM).                *)
(***************************************************************************)
\* Agent x declares the sub_parameter of agent y as a dependency.
DependsOn(agents, x, y) == agents[y].sub_parameter \in agents[x].dependencies

\* The batch (1, 2, ...) that holds agent a; 0 when none does.
BatchOf(order, a) ==
    LET held == {k \in 1..Len(order) : a \in Range(order[k])}
    IN IF held = {} THEN 0 ELSE CHOOSE k \in held : TRUE

\* The agents x reaches through n or fewer steps of DependsOn (n >= 1).
RECURSIVE Reaches(_, _, _)
Reaches(agents, x, n) ==
    LET direct == {y \in AgentIds(agents) : DependsOn(agents, x, y)}
    IN IF n <= 1 THEN direct
       ELSE LET near == Reaches(agents, x, n - 1)
            IN near \cup {z \in AgentIds(agents) : \E y \in near : DependsOn(agents, y, z)}

OnCycle(agents, x) == x \in Reaches(agents, x, Len(agents))

\* Every dependency names a registered agent's sub_parameter, and no agent
\* depends on itself, directly or through others.
AllSatisfiable(agents) ==
    \A x \in AgentIds(agents) :
        /\ ~OnCycle(agents, x)
        /\ \A d \in agents[x].dependencies :
              \E y \in AgentIds(agents) : agents[y].sub_parameter = d

\* C7: in the execution order, every agent whose sub_parameter an agent
\* declares as a dependency is in a batch strictly before that agent's.  The
\* formula states it for the registries in which every dependency can be
\* satisfied (chains of dependencies, no cycle, no unknown name).
C7_DependenciesInEarlierBatches ==
    (cm_pc # "start" /\ AllSatisfiable(cm_agents)) =>
        \A x, y \in AgentIds(cm_agents) :
            DependsOn(cm_agents, x, y) => BatchOf(cm_order, y) < BatchOf(cm_order, x)

\* The number of places at which the batches hold agent a.
Placements(order, a) ==
    Cardinality({<<k, i>> \in (1..Len(order)) \X (1..NAgents) :
                    i <= Len(order[k]) /\ order[k][i] = a})

\* C8: the batches hold every registered agent exactly once and nothing else,
\* batch 0 is the set of the agents without dependencies, and a run that
\* evaluates the batches in order ends with one evaluation per agent.
C8_EveryAgentScheduledOnce ==
    cm_pc # "start" =>
        /\ \A a \in AgentIds(cm_agents) : Placements(cm_order, a) = 1
        /\ \A k \in 1..Len(cm_order) : Range(cm_order[k]) \subseteq AgentIds(cm_agents)
        /\ Range(cm_order[1]) = {a \in AgentIds(cm_agents) : cm_agents[a].dependencies = {}}
        /\ cm_pc = "done" =>
              /\ Len(cm_completed) = Len(cm_agents)
              /\ Range(cm_completed) = AgentIds(cm_agents)

\* C8 witness: a run over a registry with agents in both batches has ended.
C8_Witness ==
    /\ cm_pc = "done"
    /\ cm_order[1] # <<>>
    /\ cm_order[2] # <<>>
    /\ Len(cm_completed) = NAgents

\* Characters that differ only in case, or are a space and an underscore.
SameChar(c, d) == c = d \/ {c, d} = {"a", "A"} \/ {c, d} = {" ", "_"}

\* hay contains needle, comparing characters by SameChar.
LooseContains(hay, needle) ==
    \E i \in 0..(Len(hay) - Len(needle)) :
        \A j \in 1..Len(needle) : SameChar(hay[i + j], needle[j])

\* Some dependency of agent x can never be satisfied: it names the
\* sub_parameter of no agent, or x is on a cycle of dependencies.
Unsatisfiable(agents, x) ==
    \/ \E d \in agents[x].dependencies :
          \A y \in AgentIds(agents) : agents[y].sub_parameter # d
    \/ OnCycle(agents, x)

\* The evaluations completed before the agent evaluated last.
CompletedBefore == SubSeq(cm_completed, 1, Len(cm_completed) - 1)

\* C9: agents whose dependencies can never be satisfied are in the final
\* batch; the run is never blocked before its end; and the context resolved
\* for such an agent holds only dependencies matched by a completed
\* evaluation, so it is empty when none is matched.
C9_UnsatisfiableNeverBlock ==
    /\ cm_pc # "start" =>
          \A x \in AgentIds(cm_agents) :
              Unsatisfiable(cm_agents, x) => x \in Range(cm_order[Len(cm_order)])
    /\ cm_pc # "done" => ENABLED NextCM
    /\ (cm_agent # 0 /\ Unsatisfiable(cm_agents, cm_agent)) =>
          /\ DOMAIN cm_context \subseteq cm_agents[cm_agent].dependencies
          /\ \A d \in DOMAIN cm_context :
                /\ cm_context[d] \in Range(CompletedBefore)
                /\ LooseContains(cm_agents[cm_context[d]].sub_parameter, d)

\* C9 witness: an agent with a dependency no agent evaluates and a dependency
\* that a completed evaluation matches was evaluated with the one entry.
C9_Witness ==
    /\ cm_agent # 0
    /\ Unsatisfiable(cm_agents, cm_agent)
    /\ <<"x">> \in cm_agents[cm_agent].dependencies
    /\ Cardinality(cm_agents[cm_agent].dependencies) = 2
    /\ Cardinality(DOMAIN cm_context) = 1

(***************************************************************************)
(* Properties of resolve_dependencies (SpecRD).                            *)
(***************************************************************************)
\* The completed evaluations of registered agents.
CompletedAgents == Range(cm_completed) \cap AgentIds(cm_agents)

\* s without its whitespace, in lower case.
RECURSIVE Squash(_)
Squash(s) ==
    IF s = <<>> THEN <<>>
    ELSE IF Head(s) \in {" "} THEN Squash(Tail(s))
    ELSE <<LowerChar(Head(s))>> \o Squash(Tail(s))

\* C10 as stated: a dependency name has an entry in the context exactly when
\* some completed agent's sub_parameter contains it once case and whitespace
\* are ignored, and the context has no other keys.
C10_WhitespaceInsensitiveMatch ==
    cm_pc = "resolved" =>
        /\ DOMAIN cm_context \subseteq cm_agents[1].dependencies
        /\ \A d \in cm_agents[1].dependencies :
              d \in DOMAIN cm_context <=>
                  \E y \in CompletedAgents :
                      Contains(Squash(cm_agents[y].sub_parameter), Squash(d))

\* C10 as amended: a dependency name has an entry in the context exactly when
\* some completed agent's sub_parameter contains it, comparing without regard
\* to case and taking a space and an underscore for the same character; the
\* context has no other keys.
C10_SpaceUnderscoreMatch ==
    cm_pc = "resolved" =>
        /\ DOMAIN cm_context \subseteq cm_agents[1].dependencies
        /\ \A d \in cm_agents[1].dependencies :
              d \in DOMAIN cm_context <=>
                  \E y \in CompletedAgents :
                      LooseContains(cm_agents[y].sub_parameter, d)

\* C10 witness: a dependency written with a space and in upper case was
\* matched to a completed agent whose sub_parameter has neither.
C10_Witness ==
    /\ cm_pc = "resolved"
    /\ \E d \in DOMAIN cm_context :
          /\ " " \in Range(d)
          /\ "A" \in Range(d)
          /\ {" ", "A"} \cap Range(cm_agents[cm_context[d]].sub_parameter) = {}

(***************************************************************************)
(* Properties of the dependency context of a run (SpecCM).                 *)
(***************************************************************************)
\* C11: the context resolved for an agent of the later batch holds, for each
\* declared dependency that is the sub_parameter of an agent of the earlier
\* batch, the evaluation of an agent with that sub_parameter, not that of an
\* agent whose sub_parameter merely contains the name.
C11_ContextReflectsEarlierBatch ==
    (cm_agent # 0 /\ BatchOf(cm_order, cm_agent) = 2) =>
        \A d \in cm_agents[cm_agent].dependencies :
            (\E y \in Range(cm_order[1]) : cm_agents[y].sub_parameter = d) =>
                /\ d \in DOMAIN cm_context
                /\ cm_agents[cm_context[d]].sub_parameter = d

(***************************************************************************)
(* Properties of concurrent runs (SpecLE).                                 *)
(***************************************************************************)
\* C12: nothing a run records can be observed or overwritten by another
\* run: get_last_evaluation read within a run, of an agent that recorded in
\* that run, returns the evaluation of that run.
C12_RunsShareNoMutableState ==
    \A r \in DOMAIN le_read : le_read[r] # 0 => le_read[r] = r

(***************************************************************************)
(* Properties of the storage step of the two endpoints (SpecST).           *)
(***************************************************************************)
\* C13: once validate_idea has returned, the request is answered 200 with the
\* validation result whether or not the report could be stored (database
\* manager absent, or save_validation_report raising); saved_to_database is
\* true exactly when the report was stored, and then the body carries the
\* report_id of the stored report (and none otherwise).
C13_ResultReturnedWithoutStorage ==
    (ep_calls > 0 /\ ep_pc = "done") =>
        /\ ep_resp.status = 200
        /\ ep_resp.kind \in {"EXCELLENT", "GOOD", "MODERATE", "WEAK", "ERROR"}
        /\ ep_resp.saved = (ep_saved # {})
        /\ ep_resp.saved => ep_resp.report_id \in ep_saved
        /\ ~ep_resp.saved => ep_resp.report_id = 0

\* C13 witness: a pitch deck request was answered with the result although
\* nothing was stored.
C13_Witness ==
    /\ ep_pc = "done"
    /\ ep_calls > 0
    /\ "extracted" \in Range(ep_queue)
    /\ ep_saved = {}
    /\ ep_resp.status = 200
    /\ ep_resp.saved = FALSE

(***************************************************************************)
(* Properties of the score classifications (SpecSC).                       *)
(***************************************************************************)
\* The category of a score by the thresholds 4.0, 3.0 and 2.0, the lower
\* bound inclusive: 1 (top) to 4 (lowest).
CategoryOf(score) ==
    IF score >= 4 * Scale THEN 1
    ELSE IF score >= 3 * Scale THEN 2
    ELSE IF score >= 2 * Scale THEN 3
    ELSE 4

StatusClasses == <<"excellent", "good", "moderate", "poor">>

RiskLevels == <<"Low Risk", "Moderate Risk", "High Risk", "Very High Risk">>

\* C14: the status class of a cluster and the risk level of a report are the
\* category of the score by the thresholds 4.0, 3.0, 2.0 with inclusive lower
\* bounds: exactly 4.0 is in the top category, the score just below 4.0 in
\* the second, exactly 2.0 in the third, and every score below 2.0 in the
\* lowest.
C14_InclusiveThresholds ==
    /\ "status_class" \in fn_pc =>
          /\ fn_out.status_class = StatusClasses[CategoryOf(fn_in)]
          /\ fn_in = 4 * Scale => fn_out.status_class = "excellent"
          /\ fn_in = 4 * Scale - 1 => fn_out.status_class = "good"
          /\ fn_in = 2 * Scale => fn_out.status_class = "moderate"
          /\ fn_in < 2 * Scale => fn_out.status_class = "poor"
    /\ "risk_level" \in fn_pc =>
          /\ fn_out.risk_level = RiskLevels[CategoryOf(fn_in)]
          /\ fn_in = 4 * Scale => fn_out.risk_level = "Low Risk"
          /\ fn_in = 4 * Scale - 1 => fn_out.risk_level = "Moderate Risk"
          /\ fn_in = 2 * Scale => fn_out.risk_level = "High Risk"
          /\ fn_in < 2 * Scale => fn_out.risk_level = "Very High Risk"

\* C14 witness: the score just below 4.0 was classified by both functions,
\* and both put it in the second category.
C14_Witness ==
    /\ fn_pc = {"status_class", "risk_level"}
    /\ fn_in = 4 * Scale - 1
    /\ fn_out.status_class = "good"
    /\ fn_out.risk_level = "Moderate Risk"

(***************************************************************************)
(* Properties of the cluster scores of a report (SpecCS).                  *)
(***************************************************************************)
\* q = sum(score * weight) / sum(weight) over the evaluations.
IsWeightedAverage(q, evals) ==
    q.num * SumWeights(evals) = q.den * SumWeightedScores(evals)

\* C15: the score calculate_cluster_scores gives a cluster, and the
\* overall_score of the cluster's summary, are the weighted average of the
\* scores of the cluster's evaluations, weighted by each agent's weight.
C15_ClusterScoreIsWeightedAverage ==
    /\ "cluster_scores" \in fn_pc =>
          \A c \in DOMAIN fn_out.cluster_scores :
              IsWeightedAverage(fn_out.cluster_scores[c], ClusterEvals(fn_in, c))
    /\ ("summary" \in fn_pc /\ ~fn_out.summary.empty) =>
          IsWeightedAverage(fn_out.summary.overall_score,
                            ClusterEvals(fn_in, fn_out.summary_of))

(***************************************************************************)
(* Properties of the cluster weights of a run (SpecCW).                    *)
(***************************************************************************)
\* C16: the cluster weights a run aggregates with sum to 1.0, whatever
\* custom weights the caller supplied.
C16_ClusterWeightsSumToOne ==
    "aggregated" \in fn_pc =>
        /\ ~fn_out.sum.nan
        /\ fn_out.sum.q.den # 0
        /\ fn_out.sum.q.num = fn_out.sum.q.den

C18_CompleteFieldsOnEveryPath ==
    vo_pc = "returned" =>
        vo_result.keys =
            {"score", "confidence_level", "explanation", "assumptions",
             "key_insights", "recommendations", "risk_factors", "peer_challenges",
             "evidence_gaps", "indian_market_considerations"}

C20_BroadcastReachesEveryClient ==
    /\ \A m \in DOMAIN bq_audience :
          (\A i \in 1..Len(bq_queue) : bq_queue[i] # m) =>
              \A c \in bq_audience[m] \cap bq_conns :
                  \E i \in 1..Len(bq_recv[c]) : bq_recv[c][i] = m
    /\ \A c \in DOMAIN bq_recv :
          \A i, j \in 1..Len(bq_recv[c]) : i < j => bq_recv[c][i] < bq_recv[c][j]

(***************************************************************************)
(* Properties of get_pragati_validator under concurrent calls (SpecLE).    *)
(***************************************************************************)
\* C21: over every interleaving of concurrent calls of get_pragati_validator
\* the validator is constructed at most once (no two calls are both past the
\* test "is None" and about to construct), and every call returns the same
\* instance.
C21_ValidatorConstructedOnce ==
    /\ Cardinality({r \in DOMAIN le_pc : le_pc[r] = "construct"}) <= 1
    /\ \A r1, r2 \in DOMAIN le_held :
          (le_held[r1] # 0 /\ le_held[r2] # 0) => le_held[r1] = le_held[r2]

(***************************************************************************)
(* Properties of the text parsing of validate_output (SpecVO).             *)
(***************************************************************************)
\* The number that follows the word "score" in a text: the longest prefix of
\* the digits and dots after it that reads as a number; 3.0 when the text has
\* no such number.
NumberAfterScore(text) ==
    LET m == score_match(text)
        valid == {n \in 1..Len(m) : FloatOfDigits(SubSeq(m, 1, n)).exc = "none"}
    IN IF valid = {} THEN Tenths(30)
       ELSE FloatOfDigits(SubSeq(m, 1, CHOOSE n \in valid : \A k \in valid : k <= n)).val

\* C22: for a string output from which no JSON object can be parsed (no
\* braces, or braces around text that is not valid JSON), validate_output
\* returns the number following the word "score", clamped to [1.0, 5.0], or
\* 3.0 when the text has none, with confidence_level 0.6.
C22_TextParsingOnJsonFailure ==
    (vo_pc = "returned" /\ vo_output.kind \in {"str_text", "str_badjson"}) =>
        /\ vo_result.score = Clamp(Tenths(10), Tenths(50), NumberAfterScore(vo_output.text))
        /\ vo_result.confidence_level = Tenths(6)

(***************************************************************************)
(* Properties of the strengths and weaknesses of a report (SpecSW).        *)
(***************************************************************************)
\* The entries of a list that come from conversation i.
EntriesOf(list, i) == {n \in 1..Len(list) : list[n].conv = i}

\* C23: for conversations with scores on the scale 1.0 to 5.0, every
\* strength of a conversation in the top category (score >= 4.0) is listed
\* and none of its weaknesses is; and the severity and the priority given to
\* a 5.0 conversation differ from those given to a 1.0 conversation.
C23_HighScoresAreStrengths ==
    /\ "strengths_weaknesses" \in fn_pc =>
          \A i \in 1..Len(fn_in) :
              fn_in[i].score >= 40 =>
                  /\ Cardinality(EntriesOf(fn_out.strengths, i)) = fn_in[i].strengths
                  /\ EntriesOf(fn_out.weaknesses, i) = {}
    /\ "strengths_weaknesses" \in fn_pc =>
          \A m, n \in 1..Len(fn_out.weaknesses) :
              (/\ fn_out.weaknesses[m].score = 50
               /\ fn_out.weaknesses[n].score = 10) =>
                  fn_out.weaknesses[m].severity # fn_out.weaknesses[n].severity
    /\ "recommendations" \in fn_pc =>
          \A m, n \in 1..Len(fn_out.recommendations) :
              (/\ fn_in[fn_out.recommendations[m].conv].score = 50
               /\ fn_in[fn_out.recommendations[n].conv].score = 10) =>
                  fn_out.recommendations[m].priority # fn_out.recommendations[n].priority

(***************************************************************************)
(* Properties of the PDF download progress stream (SpecDLFair).            *)
(***************************************************************************)
\* The progress updates among the events of the stream, in order.
RECURSIVE ProgressOf(_)
ProgressOf(events) ==
    IF events = <<>> THEN <<>>
    ELSE IF Head(events).type = "progress"
         THEN <<Head(events).n>> \o ProgressOf(Tail(events))
         ELSE ProgressOf(Tail(events))

TerminalEvents(events) ==
    {i \in 1..Len(events) : events[i].type \in {"complete", "error"}}

\* The part of the property that holds in every state of the stream.
C24_StreamSafety ==
    /\ ProgressOf(dl_stream) = [i \in 1..Len(ProgressOf(dl_stream)) |-> i]
    /\ Cardinality(TerminalEvents(dl_stream)) <= 1
    /\ TerminalEvents(dl_stream) \subseteq {Len(dl_stream)}
    /\ (TerminalEvents(dl_stream) # {}) = ~dl_open
    /\ (\E i \in 1..Len(dl_stream) : dl_stream[i].type = "complete") =>
          {"buffer", "filename"} \subseteq dl_result
    /\ (\E i \in 1..Len(dl_stream) : dl_stream[i].type = "error") =>
          "error" \in dl_result

\* C24: the progress events are yielded in the order they were reported; at
\* most one terminal event (complete or error) is yielded, it is the last
\* event and the stream ends with it; a complete event comes only after the
\* buffer and the file name were stored, an error event only after the error
\* was stored; and once the thread has finished, the stream eventually ends.
C24_ProgressStreamOrdered ==
    /\ []C24_StreamSafety
    /\ (dl_thread = "done") ~> (~dl_open)

\* C24 witness: a stream that yielded two progress events and a keepalive
\* and ended with the complete event.
C24_Witness ==
    /\ ~dl_open
    /\ dl_stream[Len(dl_stream)].type = "complete"
    /\ Len(ProgressOf(dl_stream)) >= 2
    /\ dl_keepalives >= 1

(***************************************************************************)
(* Properties of write_comprehensive_report (SpecRW).                      *)
(***************************************************************************)
\* Every cluster report and every section has been written.
AllSectionsWritten ==
    /\ Len(rw_clusters) = Len(group_by_cluster(rw_convs))
    /\ Len(rw_sections) = Len(Sections)

DistinctTriples(evaluations) ==
    \A i, j \in 1..Len(evaluations) :
        i # j => TripleOf(evaluations[i]) # TripleOf(evaluations[j])

\* C27: for evaluations with pairwise distinct (cluster, sub_cluster,
\* parameter_name), the conversations read back from the stored report are
\* exactly one per evaluation, with its cluster, parameter, sub-parameter,
\* agent_id and assigned score, and total_agents and total_parameters equal
\* the number of evaluations.
C27_LegacyFormatLosesNothing ==
    (DistinctTriples(fn_in) /\ "processed" \in fn_pc) =>
        /\ Len(fn_out.conversations) = Len(fn_in)
        /\ \A i \in 1..Len(fn_in) :
              Cardinality({j \in 1..Len(fn_out.conversations) :
                  fn_out.conversations[j] =
                      [cluster |-> fn_in[i].cluster, parameter |-> fn_in[i].sub_cluster,
                       sub_parameter |-> fn_in[i].parameter_name,
                       score |-> fn_in[i].assigned_score, agent_id |-> i]}) = 1
        /\ fn_out.total_agents = Len(fn_in)
        /\ fn_out.report.total_parameters = Len(fn_in)

(***************************************************************************)
(* Properties of the performance areas (SpecPA).                           *)
(***************************************************************************)
\* The number of entries of a list of areas that name the cluster.
AreaCount(areas, cluster) ==
    Cardinality({i \in 1..Len(areas) : areas[i].cluster = cluster})

\* C28: every cluster of cluster_scores is in exactly one of good_areas
\* (score >= 4.0), bad_areas (score <= 2.5) and neutral_areas (2.5 < score <
\* 4.0), the one its score names, and next_steps holds exactly one "Urgent"
\* entry per bad area.
C28_AreasPartitionClusters ==
    "detailed_report" \in fn_pc =>
        /\ \A i \in 1..Len(fn_in.cluster_scores) :
              LET c == fn_in.cluster_scores[i].cluster
                  score == fn_in.cluster_scores[i].score
              IN /\ AreaCount(fn_out.good_areas, c) + AreaCount(fn_out.bad_areas, c)
                        + AreaCount(fn_out.neutral_areas, c) = 1
                 /\ AreaCount(fn_out.good_areas, c) = 1 <=> score >= 4 * Scale
                 /\ AreaCount(fn_out.bad_areas, c) = 1 <=> 2 * score <= 5 * Scale
        /\ Len(fn_out.good_areas) + Len(fn_out.bad_areas) + Len(fn_out.neutral_areas)
              = Len(fn_in.cluster_scores)
        /\ \A i \in 1..Len(fn_out.bad_areas) :
              Cardinality({n \in 1..Len(fn_out.next_steps) :
                  /\ fn_out.next_steps[n].kind = "Urgent"
                  /\ fn_out.next_steps[n].cluster = fn_out.bad_areas[i].cluster}) = 1
        /\ Cardinality({n \in 1..Len(fn_out.next_steps) :
                           fn_out.next_steps[n].kind = "Urgent"}) = Len(fn_out.bad_areas)

\* C28 witness: a report with a cluster at 2.5 classified as bad, with its
\* "Urgent" step, and a cluster at 4.0 classified as good.
C28_Witness ==
    /\ "detailed_report" \in fn_pc
    /\ Len(fn_in.cluster_scores) = 2
    /\ fn_in.cluster_scores[1].score = Tenths(25).v
    /\ fn_in.cluster_scores[2].score = Tenths(40).v
    /\ Len(fn_out.bad_areas) = 1
    /\ Len(fn_out.good_areas) = 1
    /\ Len(fn_out.next_steps) = 6

====
